---- MODULE Spec2Model ----
(***************************************************************************)
(* A model of the ASUS mouse driver of ratbag-python                       *)
(* (ratbag/drivers/asus.py): the 64-byte request/response protocol, the    *)
(* writer calls, and the commit handler that flushes dirty profiles.       *)
(***************************************************************************)
EXTENDS Integers, Sequences, FiniteSets, TLC

(* ------------------------------------------------------------------ *)
(* Bounds of the model (the device configuration that is explored).   *)
(* ------------------------------------------------------------------ *)
NumProfiles == 2
NumDpis == 1
NumButtons == 1
NumLeds == 1
MaxEdits == 2
MaxQueue == 1

(* ------------------------------------------------------------------ *)
(* Program constants.                                                 *)
(* ------------------------------------------------------------------ *)
PACKET_SIZE == 64

CMD_GET_PROFILE_DATA == <<18, 0>>
CMD_GET_LED_DATA == <<18, 3>>
CMD_GET_RESOLUTION_DATA == <<18, 4>>
CMD_GET_BUTTON_DATA == <<18, 5>>
CMD_GET_DISTANCE == <<18, 6>>
CMD_GET_BATTERY_DATA == <<18, 7>>
CMD_SET_PROFILE == <<80, 2>>
CMD_SAVE_PROFILE == <<80, 3>>
CMD_SET_BUTTON_ACTION == <<81, 33>>
CMD_SET_LED == <<81, 40>>
CMD_SET_RESOLUTION_DATA == <<81, 49>>
CMD_SET_DISTANCE == <<81, 53>>
CMD_SET_BATTERY_DATA == <<81, 55>>

QUIRK_DOUBLE_DPI == "DOUBLE_DPI"
QUIRK_BATTERY_V2 == "BATTERY_V2"
QUIRK_STRIX_PROFILE == "STRIX_PROFILE"

OFFSET_RATE == 0
OFFSET_RESPONSE == 1
OFFSET_SNAPPING == 2

ACTION_TYPE_KEYBOARD == 0
ACTION_TYPE_MOUSE == 1

POLLING_RATE == <<125, 250, 500, 1000>>
SLEEP_TIMEOUT == <<1, 2, 3, 5, 10, 0>>
LED_MODE == <<"ON", "BREATHING", "CYCLE", "WAVE", "REACTIVE", "FLASHER", "BATTERY">>

(* The two bytes of the reserved error marker (0xff, 0xaa). *)
ERR_MARKER_0 == 255
ERR_MARKER_1 == 170

(* ------------------------------------------------------------------ *)
(* Python helpers.                                                    *)
(* ------------------------------------------------------------------ *)
Range(s) == {s[i] : i \in DOMAIN s}

(* tuple.index(x): the 0-based position of the first x in s. *)
IndexOf(s, x) == (CHOOSE i \in DOMAIN s : s[i] = x /\ \A j \in DOMAIN s : s[j] = x => i <= j) - 1

Max(a, b) == IF a >= b THEN a ELSE b
Min(a, b) == IF a <= b THEN a ELSE b

(* Python's floor division for a positive divisor. *)
FloorDiv(a, b) == a \div b

(* Storing a value into a bytes() object: only 0..255 is accepted. *)
IsByte(v) == v >= 0 /\ v <= 255

Profiles == 0..(NumProfiles - 1)
Dpis == 0..(NumDpis - 1)
Buttons == 0..(NumButtons - 1)
Leds == 0..(NumLeds - 1)

(* [0] * PACKET_SIZE *)
ZeroPacket == [i \in 0..(PACKET_SIZE - 1) |-> 0]

(* A variant of Request that puts the opcode in front of the zero list       *)
(* (request[0:0] = cmd) instead of over its first two elements, to see that  *)
(* the packet size stated is the code's                                      *)
Request_Insert(cmd) ==
    [i \in 0..(PACKET_SIZE + Len(cmd) - 1) |-> IF i < Len(cmd) THEN cmd[i + 1] ELSE 0]

(* request = [0] * PACKET_SIZE; request[0:2] = cmd: the slice assignment     *)
(* puts the elements of cmd in the place of the first two of the list        *)
Request(cmd) ==
    [i \in 0..(PACKET_SIZE - 2 + Len(cmd) - 1) |->
        IF i < Len(cmd) THEN cmd[i + 1] ELSE ZeroPacket[i - Len(cmd) + 2]]

Opcode(pkt) == <<pkt[0], pkt[1]>>

(* ------------------------------------------------------------------ *)
(* The action table ACTION (a reserved word, so ACTION_TABLE;    *)
(* order is important) and libevdev key names.                        *)
(* A row is <<physical code, action class, action arguments>>.        *)
(* ------------------------------------------------------------------ *)
ACTION_TABLE == <<
    << 240, "ActionButton", << 1 >> >>,
    << 241, "ActionButton", << 2 >> >>,
    << 242, "ActionButton", << 3 >> >>,
    << 228, "ActionButton", << 4 >> >>,
    << 229, "ActionButton", << 5 >> >>,
    << 230, "ActionSpecial", << "RESOLUTION_CYCLE_UP" >> >>,
    << 232, "ActionSpecial", << "WHEEL_UP" >> >>,
    << 233, "ActionSpecial", << "WHEEL_DOWN" >> >>,
    << 255, "ActionNone", << >> >>,
    << 225, "ActionButton", << 4 >> >>,
    << 226, "ActionButton", << 5 >> >>,
    << 240, "ActionKey", << "KEY_PLAYPAUSE" >> >>,
    << 241, "ActionKey", << "KEY_STOP" >> >>,
    << 242, "ActionKey", << "KEY_PREVIOUSSONG" >> >>,
    << 243, "ActionKey", << "KEY_NEXTSONG" >> >>,
    << 244, "ActionKey", << "KEY_MUTE" >> >>,
    << 245, "ActionKey", << "KEY_VOLUMEDOWN" >> >>,
    << 246, "ActionKey", << "KEY_VOLUMEUP" >> >>,
    << 4, "ActionKey", << "KEY_A" >> >>,
    << 5, "ActionKey", << "KEY_B" >> >>,
    << 6, "ActionKey", << "KEY_C" >> >>,
    << 7, "ActionKey", << "KEY_D" >> >>,
    << 8, "ActionKey", << "KEY_E" >> >>,
    << 9, "ActionKey", << "KEY_F" >> >>,
    << 10, "ActionKey", << "KEY_G" >> >>,
    << 11, "ActionKey", << "KEY_H" >> >>,
    << 12, "ActionKey", << "KEY_I" >> >>,
    << 13, "ActionKey", << "KEY_J" >> >>,
    << 14, "ActionKey", << "KEY_K" >> >>,
    << 15, "ActionKey", << "KEY_L" >> >>,
    << 16, "ActionKey", << "KEY_M" >> >>,
    << 17, "ActionKey", << "KEY_N" >> >>,
    << 18, "ActionKey", << "KEY_O" >> >>,
    << 19, "ActionKey", << "KEY_P" >> >>,
    << 20, "ActionKey", << "KEY_Q" >> >>,
    << 21, "ActionKey", << "KEY_R" >> >>,
    << 22, "ActionKey", << "KEY_S" >> >>,
    << 23, "ActionKey", << "KEY_T" >> >>,
    << 24, "ActionKey", << "KEY_U" >> >>,
    << 25, "ActionKey", << "KEY_V" >> >>,
    << 26, "ActionKey", << "KEY_W" >> >>,
    << 27, "ActionKey", << "KEY_X" >> >>,
    << 28, "ActionKey", << "KEY_Y" >> >>,
    << 29, "ActionKey", << "KEY_Z" >> >>,
    << 30, "ActionKey", << "KEY_1" >> >>,
    << 31, "ActionKey", << "KEY_2" >> >>,
    << 32, "ActionKey", << "KEY_3" >> >>,
    << 33, "ActionKey", << "KEY_4" >> >>,
    << 34, "ActionKey", << "KEY_5" >> >>,
    << 35, "ActionKey", << "KEY_6" >> >>,
    << 36, "ActionKey", << "KEY_7" >> >>,
    << 37, "ActionKey", << "KEY_8" >> >>,
    << 38, "ActionKey", << "KEY_9" >> >>,
    << 39, "ActionKey", << "KEY_0" >> >>,
    << 40, "ActionKey", << "KEY_ENTER" >> >>,
    << 41, "ActionKey", << "KEY_ESC" >> >>,
    << 42, "ActionKey", << "KEY_BACKSPACE" >> >>,
    << 43, "ActionKey", << "KEY_TAB" >> >>,
    << 44, "ActionKey", << "KEY_SPACE" >> >>,
    << 45, "ActionKey", << "KEY_MINUS" >> >>,
    << 46, "ActionKey", << "KEY_KPPLUS" >> >>,
    << 53, "ActionKey", << "KEY_GRAVE" >> >>,
    << 54, "ActionKey", << "KEY_EQUAL" >> >>,
    << 56, "ActionKey", << "KEY_SLASH" >> >>,
    << 58, "ActionKey", << "KEY_F1" >> >>,
    << 59, "ActionKey", << "KEY_F2" >> >>,
    << 60, "ActionKey", << "KEY_F3" >> >>,
    << 61, "ActionKey", << "KEY_F4" >> >>,
    << 62, "ActionKey", << "KEY_F5" >> >>,
    << 63, "ActionKey", << "KEY_F6" >> >>,
    << 64, "ActionKey", << "KEY_F7" >> >>,
    << 65, "ActionKey", << "KEY_F8" >> >>,
    << 66, "ActionKey", << "KEY_F9" >> >>,
    << 67, "ActionKey", << "KEY_F10" >> >>,
    << 68, "ActionKey", << "KEY_F11" >> >>,
    << 69, "ActionKey", << "KEY_F12" >> >>,
    << 74, "ActionKey", << "KEY_HOME" >> >>,
    << 75, "ActionKey", << "KEY_PAGEUP" >> >>,
    << 76, "ActionKey", << "KEY_DELETE" >> >>,
    << 78, "ActionKey", << "KEY_PAGEDOWN" >> >>,
    << 79, "ActionKey", << "KEY_RIGHT" >> >>,
    << 80, "ActionKey", << "KEY_LEFT" >> >>,
    << 81, "ActionKey", << "KEY_DOWN" >> >>,
    << 82, "ActionKey", << "KEY_UP" >> >>,
    << 89, "ActionKey", << "KEY_KP1" >> >>,
    << 90, "ActionKey", << "KEY_KP2" >> >>,
    << 91, "ActionKey", << "KEY_KP3" >> >>,
    << 92, "ActionKey", << "KEY_KP4" >> >>,
    << 93, "ActionKey", << "KEY_KP5" >> >>,
    << 94, "ActionKey", << "KEY_KP6" >> >>,
    << 95, "ActionKey", << "KEY_KP7" >> >>,
    << 96, "ActionKey", << "KEY_KP8" >> >>,
    << 97, "ActionKey", << "KEY_KP9" >> >>
>>

(* libevdev.EV_KEY.codes: <<evdev value, name>> *)
EV_KEY == <<
    <<1, "KEY_ESC">>, <<2, "KEY_1">>, <<3, "KEY_2">>, <<4, "KEY_3">>,
    <<5, "KEY_4">>, <<6, "KEY_5">>, <<7, "KEY_6">>, <<8, "KEY_7">>,
    <<9, "KEY_8">>, <<10, "KEY_9">>, <<11, "KEY_0">>, <<12, "KEY_MINUS">>,
    <<13, "KEY_EQUAL">>, <<14, "KEY_BACKSPACE">>, <<15, "KEY_TAB">>, <<16, "KEY_Q">>,
    <<17, "KEY_W">>, <<18, "KEY_E">>, <<19, "KEY_R">>, <<20, "KEY_T">>,
    <<21, "KEY_Y">>, <<22, "KEY_U">>, <<23, "KEY_I">>, <<24, "KEY_O">>,
    <<25, "KEY_P">>, <<26, "KEY_LEFTBRACE">>, <<27, "KEY_RIGHTBRACE">>, <<28, "KEY_ENTER">>,
    <<29, "KEY_LEFTCTRL">>, <<30, "KEY_A">>, <<31, "KEY_S">>, <<32, "KEY_D">>,
    <<33, "KEY_F">>, <<34, "KEY_G">>, <<35, "KEY_H">>, <<36, "KEY_J">>,
    <<37, "KEY_K">>, <<38, "KEY_L">>, <<39, "KEY_SEMICOLON">>, <<40, "KEY_APOSTROPHE">>,
    <<41, "KEY_GRAVE">>, <<42, "KEY_LEFTSHIFT">>, <<43, "KEY_BACKSLASH">>, <<44, "KEY_Z">>,
    <<45, "KEY_X">>, <<46, "KEY_C">>, <<47, "KEY_V">>, <<48, "KEY_B">>,
    <<49, "KEY_N">>, <<50, "KEY_M">>, <<51, "KEY_COMMA">>, <<52, "KEY_DOT">>,
    <<53, "KEY_SLASH">>, <<54, "KEY_RIGHTSHIFT">>, <<55, "KEY_KPASTERISK">>, <<56, "KEY_LEFTALT">>,
    <<57, "KEY_SPACE">>, <<58, "KEY_CAPSLOCK">>, <<59, "KEY_F1">>, <<60, "KEY_F2">>,
    <<61, "KEY_F3">>, <<62, "KEY_F4">>, <<63, "KEY_F5">>, <<64, "KEY_F6">>,
    <<65, "KEY_F7">>, <<66, "KEY_F8">>, <<67, "KEY_F9">>, <<68, "KEY_F10">>,
    <<69, "KEY_NUMLOCK">>, <<70, "KEY_SCROLLLOCK">>, <<71, "KEY_KP7">>, <<72, "KEY_KP8">>,
    <<73, "KEY_KP9">>, <<74, "KEY_KPMINUS">>, <<75, "KEY_KP4">>, <<76, "KEY_KP5">>,
    <<77, "KEY_KP6">>, <<78, "KEY_KPPLUS">>, <<79, "KEY_KP1">>, <<80, "KEY_KP2">>,
    <<81, "KEY_KP3">>, <<82, "KEY_KP0">>, <<83, "KEY_KPDOT">>, <<87, "KEY_F11">>,
    <<88, "KEY_F12">>, <<102, "KEY_HOME">>, <<103, "KEY_UP">>, <<104, "KEY_PAGEUP">>,
    <<105, "KEY_LEFT">>, <<106, "KEY_RIGHT">>, <<107, "KEY_END">>, <<108, "KEY_DOWN">>,
    <<109, "KEY_PAGEDOWN">>, <<110, "KEY_INSERT">>, <<111, "KEY_DELETE">>, <<113, "KEY_MUTE">>,
    <<114, "KEY_VOLUMEDOWN">>, <<115, "KEY_VOLUMEUP">>, <<128, "KEY_STOP">>, <<163, "KEY_NEXTSONG">>,
    <<164, "KEY_PLAYPAUSE">>, <<165, "KEY_PREVIOUSSONG">>
>>

(* The greatest index of libevdev.EV_KEY.codes, which holds an entry for    *)
(* every value up to KEY_MAX, named in the kernel headers or not            *)
EV_KEY_MAX == 767

(* libevdev.EV_KEY.codes[value] exists *)
HasEvKey(value) == value >= 0 /\ value <= EV_KEY_MAX

(* libevdev.EV_KEY.codes[value].name; the names not listed in EV_KEY are    *)
(* names of no row of the action table                                      *)
EvKeyName(value) ==
    IF \E i \in DOMAIN EV_KEY : EV_KEY[i][1] = value
    THEN EV_KEY[CHOOSE i \in DOMAIN EV_KEY : EV_KEY[i][1] = value][2]
    ELSE "KEY_UNLISTED"

(* '0;1;2;6;7;5;3;4': the default button mapping *)
BUTTON_MAPPING == <<0, 1, 2, 6, 7, 5, 3, 4>>

_get_button_offset(button_idx) ==
    IF button_idx >= Len(BUTTON_MAPPING) THEN button_idx ELSE BUTTON_MAPPING[button_idx + 1]

(* Actions of the ratbag model *)
ActionNone == [cls |-> "ActionNone", args |-> <<>>]
ActionButton(n) == [cls |-> "ActionButton", args |-> <<n>>]
ActionSpecial(s) == [cls |-> "ActionSpecial", args |-> <<s>>]
ActionKey(k) == [cls |-> "ActionKey", args |-> <<k>>]
ActionMacro(events) == [cls |-> "ActionMacro", args |-> events]

(* ------------------------------------------------------------------ *)
(* State.                                                             *)
(* ------------------------------------------------------------------ *)
VARIABLES
    quirks,      \* config.quirks, split on ';'
    started,     \* "no" before start(), then "yes", or "raised" when start() raised
    profiles,    \* ratbag_device.profiles: the in-memory model
    devProfile,  \* the profile selected on the device
    edits,       \* number of model edits made so far
    lastOp,      \* the handler that ran last
    sent,        \* the packets that handler passed to hidraw_device.send, in order
    raised,      \* the exception that ended it, "none" if none
    completed,   \* the success values that handler passed to transaction.complete
    current_profile_idx,  \* the index the handler read with get_profile_data, -1 if none
    failed,      \* positions (1-based) in sent of the exchanges answered with the error marker
    args,        \* the arguments of a single get_* or set_* call, when that ran last
    received,    \* the response that call received, <<>> if none
    returned,    \* what that call returned, <<>> if nothing
    added,       \* number of 'device-added' notifications the driver has emitted
    mainloop     \* the main loop of the daemon: calls waiting, the handler running, its exchanges

(* The main loop with no call waiting and no handler running *)
IdleLoop == [queue |-> <<>>, owner |-> "idle", run |-> 0, at |-> 0, flight |-> <<>>]

vars == <<quirks, started, profiles, devProfile, edits, lastOp, sent, raised,
          completed, current_profile_idx, failed, args, received, returned, added, mainloop>>

(* The record of a single call *)
callVars == <<args, received, returned>>

_has_quirk(quirk) == quirk \in quirks

(* ------------------------------------------------------------------ *)
(* Writers: the request each set_* call builds.                       *)
(* ------------------------------------------------------------------ *)
get_profile_data_request == Request(CMD_GET_PROFILE_DATA)
get_led_data_request == Request(CMD_GET_LED_DATA)
get_resolution_data_request == Request(CMD_GET_RESOLUTION_DATA)
get_button_actions_request == Request(CMD_GET_BUTTON_DATA)
get_distance_request == Request(CMD_GET_DISTANCE)
get_battery_data_request == Request(CMD_GET_BATTERY_DATA)

set_profile(profile_idx) == [Request(CMD_SET_PROFILE) EXCEPT ![2] = profile_idx]

save_profile == Request(CMD_SAVE_PROFILE)

(* A variant of PyRound that cuts the fraction off, to see that the LED      *)
(* brightness is rounded                                                    *)
PyRound_Floor(a, b) == a \div b

(* int(round(a / b)) for a >= 0, b > 0: Python rounds halves to even. *)
PyRound(a, b) ==
    LET q == a \div b
        r == a % b
    IN  IF 2 * r < b THEN q
        ELSE IF 2 * r > b THEN q + 1
        ELSE IF q % 2 = 0 THEN q ELSE q + 1

(* A variant of ActionArgsNew that takes the key of a macro's last event,    *)
(* to see that the first event alone decides what is written                *)
ActionArgsNew_LastEvent(rba_new) ==
    IF rba_new.cls = "ActionButton" \/ rba_new.cls = "ActionSpecial"
    THEN [raised |-> "none", args |-> rba_new.args]
    ELSE IF rba_new.cls = "ActionKey"
    THEN IF HasEvKey(rba_new.args[1])
         THEN [raised |-> "none", args |-> <<EvKeyName(rba_new.args[1])>>]
         ELSE [raised |-> "IndexError", args |-> <<>>]
    ELSE IF rba_new.cls = "ActionMacro"
    THEN IF Len(rba_new.args) > 0 /\ HasEvKey(rba_new.args[Len(rba_new.args)][2])
         THEN [raised |-> "none", args |-> <<EvKeyName(rba_new.args[Len(rba_new.args)][2])>>]
         ELSE [raised |-> "IndexError", args |-> <<>>]
    ELSE [raised |-> "none", args |-> <<>>]

(* The arguments set_button_action compares with a row's arguments.   *)
(* "raised" is set when libevdev has no such key or the macro is empty *)
ActionArgsNew(rba_new) ==
    IF rba_new.cls = "ActionButton" \/ rba_new.cls = "ActionSpecial"
    THEN [raised |-> "none", args |-> rba_new.args]
    ELSE IF rba_new.cls = "ActionKey"
    THEN IF HasEvKey(rba_new.args[1])
         THEN [raised |-> "none", args |-> <<EvKeyName(rba_new.args[1])>>]
         ELSE [raised |-> "IndexError", args |-> <<>>]
    ELSE IF rba_new.cls = "ActionMacro"
    THEN IF Len(rba_new.args) > 0 /\ HasEvKey(rba_new.args[1][2])
         THEN [raised |-> "none", args |-> <<EvKeyName(rba_new.args[1][2])>>]
         ELSE [raised |-> "IndexError", args |-> <<>>]
    ELSE [raised |-> "none", args |-> <<>>]

ActionClassNew(rba_new) == IF rba_new.cls = "ActionMacro" THEN "ActionKey" ELSE rba_new.cls

(* A variant of FirstOf that takes the last matching row, to see that the   *)
(* tie-break stated of the action table is the code's                       *)
FirstOf_Last(rows) == IF rows = {} THEN 0 ELSE CHOOSE i \in rows : \A j \in rows : i >= j

(* The least element of a set of row numbers, 0 if it is empty *)
FirstOf(rows) == IF rows = {} THEN 0 ELSE CHOOSE i \in rows : \A j \in rows : i <= j

(* The element of a one-element set: The({e(x) : x \in {v}}) is e(v), with v *)
(* computed once                                                             *)
The(S) == CHOOSE x \in S : TRUE

(* The loop over ACTION in set_button_action: the index of the row at which  *)
(* it breaks (the first one that matches), 0 when it ends without break, -1  *)
(* when computing the arguments raises at the first row of the class         *)
RowMatches(cls, new, row) ==
    /\ cls = row[2]
    /\ new.args = row[3]

FindRow(rba_new) ==
    The({IF new.raised # "none" /\ \E i \in DOMAIN table : cls = table[i][2]
         THEN -1
         ELSE FirstOf({i \in DOMAIN table : RowMatches(cls, new, table[i])}) :
         new \in {ActionArgsNew(rba_new)},
         cls \in {ActionClassNew(rba_new)},
         table \in {ACTION_TABLE}})

(* A variant of set_button_action whose else branch leaves bytes 6 and 7 as *)
(* they are, to see that the sentinel is what an action without a row       *)
(* writes                                                                   *)
set_button_action_NoSentinel(button_idx, rba_new) ==
    The({[Request(CMD_SET_BUTTON_ACTION) EXCEPT
             ![4] = table[_get_button_offset(button_idx) + 1][1],
             ![5] = ACTION_TYPE_MOUSE,
             ![6] = IF row > 0 THEN table[row][1] ELSE 0,
             ![7] = IF row > 0 /\ table[row][2] = "ActionKey"
                    THEN ACTION_TYPE_KEYBOARD ELSE 0] :
         row \in {FindRow(rba_new)},
         table \in {ACTION_TABLE}})

set_button_action(button_idx, rba_new) ==
    The({[Request(CMD_SET_BUTTON_ACTION) EXCEPT
             ![4] = table[_get_button_offset(button_idx) + 1][1],
             ![5] = ACTION_TYPE_MOUSE,
             ![6] = IF row > 0 THEN table[row][1] ELSE 255,
             ![7] = IF row > 0 /\ table[row][2] = "ActionKey"
                    THEN ACTION_TYPE_KEYBOARD ELSE ACTION_TYPE_MOUSE] :
         row \in {FindRow(rba_new)},
         table \in {ACTION_TABLE}})

set_led(led_idx, color, brightness, mode) ==
    [Request(CMD_SET_LED) EXCEPT
        ![2] = led_idx,
        ![4] = IF mode \in Range(LED_MODE) THEN IndexOf(LED_MODE, mode) ELSE 0,
        ![5] = PyRound(brightness, 64),
        ![6] = color[1],
        ![7] = color[2],
        ![8] = color[3]]

set_dpi(preset, dpi) ==
    LET d == IF _has_quirk(QUIRK_DOUBLE_DPI) THEN FloorDiv(dpi, 2) ELSE dpi
    IN  [Request(CMD_SET_RESOLUTION_DATA) EXCEPT
            ![2] = preset,
            ![4] = FloorDiv(d - 50, 50)]

set_rate(hz) ==
    [Request(CMD_SET_RESOLUTION_DATA) EXCEPT
        ![2] = NumDpis + OFFSET_RATE,
        ![4] = IF hz \in Range(POLLING_RATE) THEN IndexOf(POLLING_RATE, hz) ELSE 0]

set_response(ms) ==
    [Request(CMD_SET_RESOLUTION_DATA) EXCEPT
        ![2] = NumDpis + OFFSET_RESPONSE,
        ![4] = Max(0, FloorDiv(ms, 4) - 1)]

set_snapping(enabled) ==
    [Request(CMD_SET_RESOLUTION_DATA) EXCEPT
        ![2] = NumDpis + OFFSET_SNAPPING,
        ![4] = IF enabled THEN 1 ELSE 0]

set_distance(distance) == [Request(CMD_SET_DISTANCE) EXCEPT ![4] = distance]

set_battery_data(sleep, alert) ==
    [Request(CMD_SET_BATTERY_DATA) EXCEPT
        ![4] = IF sleep # 0 /\ sleep \in Range(SLEEP_TIMEOUT)
               THEN IndexOf(SLEEP_TIMEOUT, sleep) ELSE 255,
        ![6] = FloorDiv(alert, 25)]

(* The positions at which the writers store a computed value *)
ValueBytes == {2, 4, 5, 6, 7, 8}

(* bytes(request) accepts the list only if every element is in 0..255; the   *)
(* opcode and the zero fill are, so the computed values decide               *)
Sendable(request) == \A i \in ValueBytes : IsByte(request[i])

(* ------------------------------------------------------------------ *)
(* _query and the readers: what each get_* call decodes from the      *)
(* response to its query.                                             *)
(* ------------------------------------------------------------------ *)
(* A marker test that looks at the first byte only *)
IsErrorMarker_FirstByteOnly(response) == response[0] = ERR_MARKER_0

(* response[0] == 0xff and response[1] == 0xaa *)
IsErrorMarker(response) == response[0] = ERR_MARKER_0 /\ response[1] = ERR_MARKER_1

(* _query after send and recv: DeviceError on the marker, else the response *)
_query(response) ==
    IF IsErrorMarker(response)
    THEN [raised |-> "DeviceError"]
    ELSE [raised |-> "none", response |-> response]

(* response[a:b+1] reversed *)
ReversedSlice(response, a, b) == [j \in 1..(b - a + 1) |-> response[b - (j - 1)]]

get_profile_data(response) ==
    LET q == _query(response)
    IN  IF q.raised # "none" THEN [raised |-> q.raised]
        ELSE IF _has_quirk(QUIRK_STRIX_PROFILE)
        THEN [raised |-> "NameError"]   \* the debug line names an undefined STRIX_PROFILE
        ELSE [raised |-> "none",
              profile |-> q.response[10],
              versions |-> <<ReversedSlice(q.response, 13, 15),
                             ReversedSlice(q.response, 4, 6)>>]

get_led_data(response) ==
    LET q == _query(response)
    IN  IF q.raised # "none" THEN [raised |-> q.raised]
        ELSE IF \E idx \in Leds : q.response[4 + 5 * idx] >= Len(LED_MODE)
        THEN [raised |-> "IndexError"]
        ELSE [raised |-> "none",
              leds |-> [idx \in Leds |->
                  [mode |-> LED_MODE[q.response[4 + 5 * idx] + 1],
                   color |-> <<q.response[4 + 5 * idx + 2],
                               q.response[4 + 5 * idx + 3],
                               q.response[4 + 5 * idx + 4]>>,
                   brightness |-> Min(q.response[4 + 5 * idx + 1] * 64, 255)]]]

get_resolution_data(response) ==
    LET q == _query(response)
        i == 4 + 2 * NumDpis
    IN  IF q.raised # "none" THEN [raised |-> q.raised]
        ELSE IF q.response[i] \in Range(POLLING_RATE) /\ q.response[i] >= Len(POLLING_RATE)
        THEN [raised |-> "IndexError"]
        ELSE [raised |-> "none",
              dpis |-> [k \in Dpis |->
                  IF _has_quirk(QUIRK_DOUBLE_DPI)
                  THEN (q.response[4 + 2 * k] * 50 + 50) * 2
                  ELSE q.response[4 + 2 * k] * 50 + 50],
              rate |-> IF q.response[i] \in Range(POLLING_RATE)
                       THEN POLLING_RATE[q.response[i] + 1]
                       ELSE 1000,
              response |-> (q.response[i + 2] + 1) * 4,
              snapping |-> q.response[i + 4] # 0]

(* A variant of the row test that leaves the type byte out, to see that the *)
(* type byte decides between the two code spaces                            *)
CodeMatches_IgnoresType(code_cur, type_cur, row) == code_cur = row[1]

(* The loop over ACTION in get_button_actions: a row is skipped when it is  *)
(* not of the code space type_cur names; the first row left with code        *)
(* code_cur ends the loop, 0 if there is none                                *)
CodeMatches(code_cur, type_cur, row) ==
    /\ ~(type_cur = ACTION_TYPE_KEYBOARD /\ row[2] # "ActionKey")
    /\ ~(type_cur = ACTION_TYPE_MOUSE /\ row[2] = "ActionKey")
    /\ code_cur = row[1]

FindCode(code_cur, type_cur) ==
    The({FirstOf({i \in DOMAIN table : CodeMatches(code_cur, type_cur, table[i])}) :
         table \in {ACTION_TABLE}})

(* A variant of the decoding in which a binding that ends the loop without  *)
(* a match takes the first row of the table, to see that the None action is *)
(* what the else branch of the loop appends                                 *)
DecodeButton_FirstRow(code_cur, type_cur) ==
    The({[cls |-> table[IF row = 0 THEN 1 ELSE row][2],
          args |-> table[IF row = 0 THEN 1 ELSE row][3]] :
         row \in {FindCode(code_cur, type_cur)},
         table \in {ACTION_TABLE}})

DecodeButton(code_cur, type_cur) ==
    The({IF row = 0 THEN ActionNone
         ELSE [cls |-> table[row][2], args |-> table[row][3]] :
         row \in {FindCode(code_cur, type_cur)},
         table \in {ACTION_TABLE}})

get_button_actions(response) ==
    LET q == _query(response)
    IN  IF q.raised # "none" THEN [raised |-> q.raised]
        ELSE [raised |-> "none",
              buttons |-> [idx \in Buttons |->
                  DecodeButton(q.response[_get_button_offset(idx) * 2 + 4],
                               q.response[_get_button_offset(idx) * 2 + 5])]]

get_distance(response) ==
    LET q == _query(response)
    IN  IF q.raised # "none" THEN [raised |-> q.raised]
        ELSE [raised |-> "none", distance |-> q.response[4]]

(* A variant of get_battery_data in which BATTERY_V2 only exchanges the      *)
(* offsets of the charge level and the sleep timeout, to see that the        *)
(* offsets stated of the quirk are the code's                                *)
get_battery_data_SwapOnly(response) ==
    LET q == _query(response)
        sleep_off == IF _has_quirk(QUIRK_BATTERY_V2) THEN 6 ELSE 4
        alert_off == 5
        charge_off == IF _has_quirk(QUIRK_BATTERY_V2) THEN 4 ELSE 6
    IN  IF q.raised # "none" THEN [raised |-> q.raised]
        ELSE [raised |-> "none",
              sleep |-> IF q.response[sleep_off] < Len(SLEEP_TIMEOUT)
                        THEN SLEEP_TIMEOUT[q.response[sleep_off] + 1] ELSE 0,
              alert |-> q.response[alert_off] * 25,
              charge |-> q.response[charge_off] * 25]

get_battery_data(response) ==
    LET q == _query(response)
        sleep_off == IF _has_quirk(QUIRK_BATTERY_V2) THEN 5 ELSE 4
        alert_off == IF _has_quirk(QUIRK_BATTERY_V2) THEN 6 ELSE 5
        charge_off == IF _has_quirk(QUIRK_BATTERY_V2) THEN 4 ELSE 6
    IN  IF q.raised # "none" THEN [raised |-> q.raised]
        ELSE [raised |-> "none",
              sleep |-> IF q.response[sleep_off] < Len(SLEEP_TIMEOUT)
                        THEN SLEEP_TIMEOUT[q.response[sleep_off] + 1] ELSE 0,
              alert |-> q.response[alert_off] * 25,
              charge |-> q.response[charge_off] * 25]

(* ------------------------------------------------------------------ *)
(* The device on the other side of the transport.                     *)
(* ------------------------------------------------------------------ *)
(* config.dpi_range as <<min, max, step>> *)
DpiRange == <<50, 200, 50>>

(* range_to_tuple("min:max@step") *)
range_to_tuple(r) ==
    [j \in 1..((r[2] + r[3] - r[1] + r[3] - 1) \div r[3]) |-> r[1] + (j - 1) * r[3]]

(* The DPI candidate list of the device, as start() builds it *)
dpi_list == Range(range_to_tuple(DpiRange))

(* The byte the device's memory holds in every payload position *)
DeviceFill == {0}

(* The profiles the hardware has *)
DeviceProfiles == Profiles

ErrorResponse ==
    [i \in 0..(PACKET_SIZE - 1) |->
        IF i = 0 THEN ERR_MARKER_0 ELSE IF i = 1 THEN ERR_MARKER_1 ELSE 0]

(* What a healthy device answers: the opcode echoed, the selected profile in *)
(* the profile data, its memory in the other reads *)
DeviceResponse(request, dev, fill) ==
    [i \in 0..(PACKET_SIZE - 1) |->
        IF i < 2 THEN request[i]
        ELSE IF Opcode(request) = CMD_GET_PROFILE_DATA
        THEN (IF i = (IF _has_quirk(QUIRK_STRIX_PROFILE) THEN 9 ELSE 10) THEN dev ELSE 0)
        ELSE IF request[0] = CMD_GET_PROFILE_DATA[1] /\ i >= 4 THEN fill
        ELSE 0]

Reply(request, bad, dev, fill) ==
    IF bad THEN ErrorResponse ELSE DeviceResponse(request, dev, fill)

(* ------------------------------------------------------------------ *)
(* read_profile                                                       *)
(* ------------------------------------------------------------------ *)
(* A variant of the conversion that stores the press event alone, to see    *)
(* that the macro read_profile builds holds the press and the release       *)
ReadAction_PressOnly(a) ==
    IF a.cls = "ActionKey"
    THEN IF \E i \in DOMAIN EV_KEY : EV_KEY[i][2] = a.args[1]
         THEN LET v == EV_KEY[CHOOSE i \in DOMAIN EV_KEY : EV_KEY[i][2] = a.args[1]][1]
              IN  ActionMacro(<< <<"KEY_PRESS", v>> >>)
         ELSE ActionNone
    ELSE a

(* The action read_profile stores for a decoded button action *)
ReadAction(a) ==
    IF a.cls = "ActionKey"
    THEN IF \E i \in DOMAIN EV_KEY : EV_KEY[i][2] = a.args[1]
         THEN LET v == EV_KEY[CHOOSE i \in DOMAIN EV_KEY : EV_KEY[i][2] = a.args[1]][1]
              IN  ActionMacro(<< <<"KEY_PRESS", v>>, <<"KEY_RELEASE", v>> >>)
         ELSE ActionNone
    ELSE a

(* A variant of Resolution.set_dpi that stores whatever it is given, to see  *)
(* that the membership of a DPI read from the device rests on its test       *)
Resolution_set_dpi_Unchecked(rb_resolution, new_dpi) ==
    [raised |-> "none", resolution |-> [rb_resolution EXCEPT !.dpi = new_dpi]]

(* Resolution.set_dpi of the ratbag library. A resolution's DPI is always one *)
(* of its candidate list, and a value outside the supported set is rejected  *)
(* (ConfigError) with the resolution left as it was.                         *)
Resolution_set_dpi(rb_resolution, new_dpi) ==
    IF new_dpi[1] \in dpi_list /\ new_dpi[2] \in dpi_list
    THEN [raised |-> "none", resolution |-> [rb_resolution EXCEPT !.dpi = new_dpi]]
    ELSE [raised |-> "ConfigError", resolution |-> rb_resolution]

(* "for rb_resolution in rb_profile.resolutions: rb_resolution.set_dpi(...)" *)
(* from resolution k on: the loop ends at the first value that is rejected   *)
RECURSIVE SetDpisFrom(_, _, _)
SetDpisFrom(resolutions, dpis, k) ==
    IF k >= NumDpis THEN [raised |-> "none", resolutions |-> resolutions]
    ELSE The({
        IF r.raised # "none"
        THEN [raised |-> r.raised, resolutions |-> resolutions]
        ELSE SetDpisFrom([resolutions EXCEPT ![k] = r.resolution], dpis, k + 1) :
        r \in {Resolution_set_dpi(resolutions[k], <<dpis[k], dpis[k]>>)}})

(* A variant of read_profile that stores the LED data as soon as it is read,  *)
(* before the other queries, to see that nothing is stored until all five   *)
(* queries have succeeded                                                   *)
read_profile_StoresAsItReads(rb_profile, fail, dev, fill) ==
    The({
        IF led.raised # "none"
        THEN [raised |-> led.raised, reqs |-> <<get_led_data_request>>, profile |-> rb_profile]
        ELSE [raised |-> IF fail > 1 THEN "DeviceError" ELSE "none",
              reqs |-> SubSeq(<<get_led_data_request, get_resolution_data_request,
                                get_button_actions_request, get_distance_request,
                                get_battery_data_request>>, 1, IF fail > 1 THEN fail ELSE 5),
              profile |-> [rb_profile EXCEPT
                  !.enabled = (fail = 0),
                  !.leds = [l \in Leds |->
                      [rb_profile.leds[l] EXCEPT !.mode = led.leds[l].mode,
                                                 !.color = led.leds[l].color]]]] :
        led \in {get_led_data(Reply(get_led_data_request, fail = 1, dev, fill))}})

(* The five queries of read_profile, slots 1..5; fail names the slot the     *)
(* device answers with the error marker (0: none). The result holds the      *)
(* requests sent, the exception raised and the profile as it is afterwards.  *)
read_profile(rb_profile, fail, dev, fill) ==
    The({
        IF led.raised # "none"
        THEN [raised |-> led.raised, reqs |-> q1, profile |-> rb_profile]
        ELSE IF res.raised # "none"
        THEN [raised |-> res.raised, reqs |-> q1 \o <<get_resolution_data_request>>,
              profile |-> rb_profile]
        ELSE IF btn.raised # "none"
        THEN [raised |-> btn.raised,
              reqs |-> q1 \o <<get_resolution_data_request>> \o q3,
              profile |-> rb_profile]
        ELSE IF dist.raised # "none"
        THEN [raised |-> dist.raised,
              reqs |-> q1 \o <<get_resolution_data_request>> \o q3 \o <<get_distance_request>>,
              profile |-> rb_profile]
        ELSE IF bat.raised # "none"
        THEN [raised |-> bat.raised,
              reqs |-> q1 \o <<get_resolution_data_request>> \o q3
                       \o <<get_distance_request, get_battery_data_request>>,
              profile |-> rb_profile]
        ELSE The({
          IF sd.raised # "none"
          THEN [raised |-> sd.raised,
                reqs |-> q1 \o <<get_resolution_data_request>> \o q3
                         \o <<get_distance_request, get_battery_data_request>>,
                profile |-> [rb_profile EXCEPT
                    !.report_rate = res.rate,
                    !.response = res.response,
                    !.snapping = res.snapping,
                    !.distance = dist.distance,
                    !.sleep_timeout = bat.sleep,
                    !.battery_alert = bat.alert,
                    !.enabled = TRUE,
                    !.resolutions = sd.resolutions]]
          ELSE [raised |-> "none",
              reqs |-> q1 \o <<get_resolution_data_request>> \o q3
                       \o <<get_distance_request, get_battery_data_request>>,
              profile |-> [rb_profile EXCEPT
                  !.report_rate = res.rate,
                  !.response = res.response,
                  !.snapping = res.snapping,
                  !.distance = dist.distance,
                  !.sleep_timeout = bat.sleep,
                  !.battery_alert = bat.alert,
                  !.enabled = TRUE,
                  !.resolutions = sd.resolutions,
                  !.leds = [l \in Leds |->
                      [rb_profile.leds[l] EXCEPT !.mode = led.leds[l].mode,
                                                 !.color = led.leds[l].color]],
                  !.buttons = [b \in Buttons |->
                      [rb_profile.buttons[b] EXCEPT !.action = ReadAction(btn.buttons[b])]]]] :
          sd \in {SetDpisFrom(rb_profile.resolutions, res.dpis, 0)}}) :
        led \in {IF NumLeds = 0 THEN [raised |-> "none", leds |-> <<>>]
                 ELSE get_led_data(Reply(get_led_data_request, fail = 1, dev, fill))},
        res \in {get_resolution_data(Reply(get_resolution_data_request, fail = 2, dev, fill))},
        btn \in {IF NumButtons = 0 THEN [raised |-> "none", buttons |-> <<>>]
                 ELSE get_button_actions(Reply(get_button_actions_request, fail = 3, dev, fill))},
        dist \in {get_distance(Reply(get_distance_request, fail = 4, dev, fill))},
        bat \in {get_battery_data(Reply(get_battery_data_request, fail = 5, dev, fill))},
        q1 \in {IF NumLeds = 0 THEN <<>> ELSE <<get_led_data_request>>},
        q3 \in {IF NumButtons = 0 THEN <<>> ELSE <<get_button_actions_request>>}})

(* ------------------------------------------------------------------ *)
(* start                                                              *)
(* ------------------------------------------------------------------ *)
(* The profile start() builds before anything is read *)
NewProfile(idx, current) ==
    [index |-> idx,
     active |-> (idx = current),
     enabled |-> FALSE,
     connected |-> FALSE,
     dirty |-> FALSE,
     fieldDirty |-> {},
     report_rate |-> 1000,
     response |-> 4,
     snapping |-> FALSE,
     distance |-> 0,
     sleep_timeout |-> 0,
     battery_alert |-> 0,
     resolutions |-> [k \in Dpis |->
         [dpi |-> <<range_to_tuple(DpiRange)[1], range_to_tuple(DpiRange)[1]>>,
          dirty |-> FALSE]],
     leds |-> [l \in Leds |->
         [mode |-> "OFF", color |-> <<0, 0, 0>>, brightness |-> 0, dirty |-> FALSE]],
     buttons |-> [b \in Buttons |-> [action |-> ActionNone, dirty |-> FALSE]]]

(* A variant of the except clause that catches nothing, to see that the     *)
(* initial read goes on after a DeviceError only because it is caught        *)
ExceptDeviceError_Nothing(exc) == exc

(* "except DeviceError" around the switch to and the read of one profile:   *)
(* what is left of an exception raised inside                               *)
ExceptDeviceError(exc) == IF exc = "DeviceError" THEN "none" ELSE exc

(* The loop "read actual profiles from device" from profile p on. st holds   *)
(* the profiles, the packets sent so far, the positions of the failed ones,  *)
(* the profile selected on the device and the exception that left start().   *)
(* fp[p] names the exchange of profile p the device fails: 0 none,           *)
(* 1 set_profile, 2..6 the queries of read_profile. The finally clause       *)
(* connects the profile's notify::active handler however the body ended.     *)
RECURSIVE StartLoop(_, _, _, _)
StartLoop(p, st, fp, fill) ==
    IF p >= NumProfiles \/ st.raised # "none" THEN st
    ELSE IF fp[p] = 1
    THEN StartLoop(p + 1,
                   [st EXCEPT !.profiles[p].connected = TRUE,
                              !.sent = Append(st.sent, set_profile(p)),
                              !.failed = st.failed \cup {Len(st.sent) + 1},
                              !.raised = ExceptDeviceError("DeviceError")],
                   fp, fill)
    ELSE The({StartLoop(p + 1,
                        [profiles |-> [st.profiles EXCEPT
                                          ![p] = [rp.profile EXCEPT !.connected = TRUE]],
                         sent |-> Append(st.sent, set_profile(p)) \o rp.reqs,
                         failed |-> IF rp.raised = "DeviceError"
                                    THEN st.failed \cup {Len(st.sent) + 1 + Len(rp.reqs)}
                                    ELSE st.failed,
                         dev |-> p,
                         raised |-> ExceptDeviceError(rp.raised)],
                        fp, fill) :
              rp \in {read_profile(st.profiles[p],
                                   IF fp[p] >= 2 THEN fp[p] - 1 ELSE 0, p, fill)}})

(* start(): f0 and fl say whether the device fails the first get_profile_data *)
(* and the last set_profile                                                   *)
start(f0, fp, fl, fill) ==
    The({
        IF pd.raised # "none" /\ pd.raised # "DeviceError"
        THEN [profiles |-> <<>>, sent |-> <<get_profile_data_request>>, failed |-> {},
              dev |-> devProfile, raised |-> pd.raised, current |-> -1]
        ELSE The({
            IF st1.raised # "none"
            THEN st1 @@ [current |-> current]
            ELSE [profiles |-> st1.profiles,
                  sent |-> Append(st1.sent, set_profile(current)),
                  failed |-> IF fl THEN st1.failed \cup {Len(st1.sent) + 1} ELSE st1.failed,
                  dev |-> IF fl THEN st1.dev ELSE current,
                  raised |-> "none",
                  current |-> current] :
            current \in {IF pd.raised = "DeviceError" THEN 0 ELSE pd.profile},
            st1 \in {StartLoop(0,
                        [profiles |-> [idx \in Profiles |->
                            NewProfile(idx, IF pd.raised = "DeviceError" THEN 0 ELSE pd.profile)],
                         sent |-> <<get_profile_data_request>>,
                         failed |-> IF f0 THEN {1} ELSE {},
                         dev |-> devProfile,
                         raised |-> "none"],
                        fp, fill)}}) :
        pd \in {get_profile_data(Reply(get_profile_data_request, f0, devProfile, fill))}})

(* ------------------------------------------------------------------ *)
(* on_commit                                                          *)
(* ------------------------------------------------------------------ *)
(* filter(is_dirty, items): the indices below n of the dirty items, in order *)
RECURSIVE DirtyFrom(_, _, _)
DirtyFrom(items, i, n) ==
    IF i >= n THEN <<>>
    ELSE (IF items[i].dirty THEN <<i>> ELSE <<>>) \o DirtyFrom(items, i + 1, n)

is_dirty(items, n) == DirtyFrom(items, 0, n)

(* A variant of ProfileWrites that persists the profile before its LED      *)
(* writes, to see that the order stated of a commit tells the two apart     *)
ProfileWrites_SaveBeforeLeds(rb_profile) ==
    The({<<set_profile(rb_profile.index),
           set_rate(rb_profile.report_rate),
           set_response(rb_profile.response),
           set_snapping(rb_profile.snapping),
           set_distance(rb_profile.distance),
           set_battery_data(rb_profile.sleep_timeout, rb_profile.battery_alert)>>
         \o [j \in 1..Len(rs) |-> set_dpi(rs[j], rb_profile.resolutions[rs[j]].dpi[1])]
         \o [j \in 1..Len(bs) |-> set_button_action(bs[j], rb_profile.buttons[bs[j]].action)]
         \o <<save_profile>>
         \o [j \in 1..Len(ls) |->
                set_led(ls[j], rb_profile.leds[ls[j]].color,
                        rb_profile.leds[ls[j]].brightness, rb_profile.leds[ls[j]].mode)] :
         rs \in {is_dirty(rb_profile.resolutions, NumDpis)},
         bs \in {is_dirty(rb_profile.buttons, NumButtons)},
         ls \in {is_dirty(rb_profile.leds, NumLeds)}})

(* A variant of ProfileWrites that writes every resolution of the profile,  *)
(* dirty or not, to see that the filter stated of a commit is the code's    *)
ProfileWrites_EveryResolution(rb_profile) ==
    The({<<set_profile(rb_profile.index),
           set_rate(rb_profile.report_rate),
           set_response(rb_profile.response),
           set_snapping(rb_profile.snapping),
           set_distance(rb_profile.distance),
           set_battery_data(rb_profile.sleep_timeout, rb_profile.battery_alert)>>
         \o [j \in 1..NumDpis |-> set_dpi(j - 1, rb_profile.resolutions[j - 1].dpi[1])]
         \o [j \in 1..Len(bs) |-> set_button_action(bs[j], rb_profile.buttons[bs[j]].action)]
         \o [j \in 1..Len(ls) |->
                set_led(ls[j], rb_profile.leds[ls[j]].color,
                        rb_profile.leds[ls[j]].brightness, rb_profile.leds[ls[j]].mode)]
         \o <<save_profile>> :
         bs \in {is_dirty(rb_profile.buttons, NumButtons)},
         ls \in {is_dirty(rb_profile.leds, NumLeds)}})

(* The writer calls on_commit makes for one dirty profile, in order *)
ProfileWrites(rb_profile) ==
    The({<<set_profile(rb_profile.index),
           set_rate(rb_profile.report_rate),
           set_response(rb_profile.response),
           set_snapping(rb_profile.snapping),
           set_distance(rb_profile.distance),
           set_battery_data(rb_profile.sleep_timeout, rb_profile.battery_alert)>>
         \o [j \in 1..Len(rs) |-> set_dpi(rs[j], rb_profile.resolutions[rs[j]].dpi[1])]
         \o [j \in 1..Len(bs) |-> set_button_action(bs[j], rb_profile.buttons[bs[j]].action)]
         \o [j \in 1..Len(ls) |->
                set_led(ls[j], rb_profile.leds[ls[j]].color,
                        rb_profile.leds[ls[j]].brightness, rb_profile.leds[ls[j]].mode)]
         \o <<save_profile>> :
         rs \in {is_dirty(rb_profile.resolutions, NumDpis)},
         bs \in {is_dirty(rb_profile.buttons, NumButtons)},
         ls \in {is_dirty(rb_profile.leds, NumLeds)}})

(* A variant of CommitLoop that looks at enabled only after the profile's   *)
(* writes are out, to see that the guard stated of a commit is the code's   *)
RECURSIVE CommitLoop_ChecksEnabledLate(_, _)
CommitLoop_ChecksEnabledLate(ps, active_profile_idx) ==
    IF ps = <<>>
    THEN [reqs |-> <<>>, raised |-> "none", active_profile_idx |-> active_profile_idx]
    ELSE IF ~profiles[Head(ps)].enabled
    THEN [reqs |-> ProfileWrites(profiles[Head(ps)]), raised |-> "NotReadyError",
          active_profile_idx |-> active_profile_idx]
    ELSE [CommitLoop_ChecksEnabledLate(Tail(ps),
                     IF profiles[Head(ps)].active THEN profiles[Head(ps)].index
                     ELSE active_profile_idx)
          EXCEPT !.reqs = ProfileWrites(profiles[Head(ps)]) \o @]

(* The loop over the dirty profiles ps (a sequence of indices): the requests *)
(* it makes when no exchange fails, the exception that ends it, and          *)
(* active_profile_idx as the loop leaves it                                  *)
RECURSIVE CommitLoop(_, _)
CommitLoop(ps, active_profile_idx) ==
    IF ps = <<>>
    THEN [reqs |-> <<>>, raised |-> "none", active_profile_idx |-> active_profile_idx]
    ELSE LET rb_profile == profiles[Head(ps)]
         IN  IF ~rb_profile.enabled
             THEN [reqs |-> <<>>, raised |-> "NotReadyError",
                   active_profile_idx |-> active_profile_idx]
             ELSE [CommitLoop(Tail(ps),
                              IF rb_profile.active THEN rb_profile.index
                              ELSE active_profile_idx)
                   EXCEPT !.reqs = ProfileWrites(rb_profile) \o @]

(* The requests of a commit after get_profile_data returned current *)
CommitPlan(current) ==
    The({[loop EXCEPT !.reqs = IF loop.raised = "none"
                               THEN Append(@, set_profile(loop.active_profile_idx))
                               ELSE @] :
         loop \in {CommitLoop(is_dirty(profiles, NumProfiles), current)}})

(* The first request of reqs that bytes() refuses, 0 if none *)
FirstUnsendable(reqs) ==
    IF \A j \in DOMAIN reqs : Sendable(reqs[j]) THEN 0
    ELSE CHOOSE j \in DOMAIN reqs :
            ~Sendable(reqs[j]) /\ \A i \in DOMAIN reqs : ~Sendable(reqs[i]) => j <= i

(* The profile selected after the device took the packets of sent that are   *)
(* not in failed                                                             *)
RECURSIVE DeviceAfter(_, _, _, _)
DeviceAfter(dev, pkts, bad, j) ==
    IF j > Len(pkts) THEN dev
    ELSE DeviceAfter(IF Opcode(pkts[j]) = CMD_SET_PROFILE /\ j \notin bad
                     THEN pkts[j][2] ELSE dev,
                     pkts, bad, j + 1)

(* on_commit when the device answers get_profile_data with first and does   *)
(* not fail any later exchange: what the handler sends, the exception that   *)
(* ends it, and the index it read                                            *)
on_commit(first) ==
    The({
        IF pd.raised # "none"
        THEN [sent |-> <<get_profile_data_request>>, raised |-> pd.raised, current |-> -1]
        ELSE The({
            The({IF bad # 0
                 THEN [sent |-> SubSeq(all, 1, bad - 1), raised |-> "ValueError",
                       current |-> pd.profile]
                 ELSE [sent |-> all, raised |-> plan.raised, current |-> pd.profile] :
                 bad \in {FirstUnsendable(all)}}) :
            plan \in {CommitPlan(pd.profile)},
            all \in {<<get_profile_data_request>> \o CommitPlan(pd.profile).reqs}}) :
        pd \in {get_profile_data(first)}})

(* A variant of Interrupted in which the handler notes the error and goes   *)
(* on sending, to see that the abort stated of a commit is the code's       *)
Interrupted_KeepsSending(run, fail) == [run EXCEPT !.raised = "DeviceError"]

(* The same run when the device answers exchange number fail (2 or later,    *)
(* within run.sent) with the error marker: _query raises and the handler     *)
(* sends nothing more                                                        *)
Interrupted(run, fail) ==
    LET q == _query(ErrorResponse)
    IN  IF q.raised = "none" THEN run
        ELSE [run EXCEPT !.sent = SubSeq(run.sent, 1, fail), !.raised = q.raised]

(* ------------------------------------------------------------------ *)
(* The state machine.                                                 *)
(* ------------------------------------------------------------------ *)
QuirkSets == {{}, {QUIRK_DOUBLE_DPI}, {QUIRK_STRIX_PROFILE}}

Init ==
    /\ quirks \in QuirkSets
    /\ started = "no"
    /\ profiles = <<>>
    /\ devProfile \in DeviceProfiles
    /\ edits = 0
    /\ lastOp = "none"
    /\ sent = <<>>
    /\ raised = "none"
    /\ completed = <<>>
    /\ current_profile_idx = -1
    /\ failed = {}
    /\ args = <<>>
    /\ received = <<>>
    /\ returned = <<>>
    /\ added = 0
    /\ mainloop = IdleLoop

(* A variant of DeviceAdded that emits only after a start() in which no     *)
(* exchange failed, to see when the code emits 'device-added'               *)
DeviceAdded_OnlyWhenRead(r) == IF r.raised = "none" /\ r.failed = {} THEN 1 ELSE 0

(* probe after start(): self.emit('device-added', asus_device) is reached   *)
(* when start() returned, r being how start() ended                         *)
DeviceAdded(r) == IF r.raised = "none" THEN 1 ELSE 0

(* probe: nothing for a rodent without input or output reports, else        *)
(* ASUSDevice(...).start() and the 'device-added' notification              *)
StartBody ==
    /\ started = "no"
    /\ \/ /\ started' = "skipped"
          /\ raised' = "none"
          /\ sent' = <<>>
          /\ failed' = {}
          /\ current_profile_idx' = -1
          /\ UNCHANGED <<profiles, devProfile, added>>
       \/ \E f0 \in BOOLEAN, fl \in BOOLEAN, fp \in [Profiles -> 0..6], fill \in DeviceFill :
          \E r \in {start(f0, fp, fl, fill)} :
            /\ started' = IF r.raised = "none" THEN "yes" ELSE "raised"
            /\ profiles' = r.profiles
            /\ devProfile' = r.dev
            /\ sent' = r.sent
            /\ failed' = r.failed
            /\ raised' = r.raised
            /\ current_profile_idx' = r.current
            /\ added' = added + DeviceAdded(r)
    /\ lastOp' = "start"
    /\ completed' = <<>>
    /\ UNCHANGED <<quirks, edits, callVars>>

(* What an edit of the model leaves of the last handler's record *)
EditRecord ==
    /\ lastOp' = "edit"
    /\ sent' = <<>>
    /\ failed' = {}
    /\ raised' = "none"
    /\ completed' = <<>>
    /\ current_profile_idx' = -1
    /\ edits' = edits + 1
    /\ UNCHANGED <<quirks, started, devProfile, callVars, added>>

(* RatbagProfile.ReportRate = 500. fieldDirty notes which of the profile's  *)
(* own field groups the caller has modified; the driver never reads it      *)
EditFieldBody ==
    /\ started = "yes"
    /\ edits < MaxEdits
    /\ \E p \in Profiles :
        profiles' = [profiles EXCEPT
            ![p].report_rate = 500,
            ![p].fieldDirty = @ \cup {"rate"},
            ![p].dirty = TRUE]
    /\ EditRecord

EditResolutionBody ==
    /\ started = "yes"
    /\ edits < MaxEdits
    /\ \E p \in Profiles, k \in Dpis :
        profiles' = [profiles EXCEPT
            ![p].resolutions[k].dpi = <<DpiRange[2], DpiRange[2]>>,
            ![p].resolutions[k].dirty = TRUE,
            ![p].dirty = TRUE]
    /\ EditRecord

EditButtonBody ==
    /\ started = "yes"
    /\ edits < MaxEdits
    /\ \E p \in Profiles, b \in Buttons, a \in {ActionButton(4), ActionButton(6)} :
        profiles' = [profiles EXCEPT
            ![p].buttons[b].action = a,
            ![p].buttons[b].dirty = TRUE,
            ![p].dirty = TRUE]
    /\ EditRecord

EditLedBody ==
    /\ started = "yes"
    /\ edits < MaxEdits
    /\ \E p \in Profiles, l \in Leds :
        profiles' = [profiles EXCEPT
            ![p].leds[l].mode = "BREATHING",
            ![p].leds[l].color = <<255, 0, 0>>,
            ![p].leds[l].brightness = 255,
            ![p].leds[l].dirty = TRUE,
            ![p].dirty = TRUE]
    /\ EditRecord

(* A variant of on_profile_active that does not look at the flag, to see    *)
(* that only the profile that became active is written to the device        *)
on_profile_active_IgnoresFlag(rb_profile) == <<set_profile(rb_profile.index)>>

(* on_profile_active: the packets the handler of notify::active sends for   *)
(* a profile                                                                *)
on_profile_active(rb_profile) ==
    IF rb_profile.active THEN <<set_profile(rb_profile.index)>> ELSE <<>>

(* The packets of the handlers run for the profiles of lost, from index q on *)
RECURSIVE NotifyFrom(_, _, _)
NotifyFrom(ps, lost, q) ==
    IF q >= NumProfiles THEN <<>>
    ELSE (IF q \in lost THEN on_profile_active(ps[q]) ELSE <<>>)
         \o NotifyFrom(ps, lost, q + 1)

(* Profile.set_active() and the notify::active handlers it runs:      *)
(* on_profile_active sends set_profile for the profile now active     *)
SetActiveBody ==
    /\ started = "yes"
    /\ \E p \in Profiles, bad \in BOOLEAN :
        /\ ~profiles[p].active
        /\ profiles' = [q \in Profiles |-> [profiles[q] EXCEPT !.active = (q = p)]]
        /\ sent' = NotifyFrom(profiles', {q \in Profiles : profiles[q].active}, 0)
                    \o on_profile_active(profiles'[p])
        /\ failed' = IF bad THEN {1} ELSE {}
        /\ raised' = IF bad THEN "DeviceError" ELSE "none"
        /\ devProfile' = IF bad THEN devProfile ELSE p
    /\ lastOp' = "set_active"
    /\ completed' = <<>>
    /\ current_profile_idx' = -1
    /\ UNCHANGED <<quirks, started, edits, callVars, added>>

(* The commit signal of the device: on_commit. fail is the number of the    *)
(* exchange the device answers with the error marker (0: none). The handler  *)
(* catches every exception and passes success to transaction.complete.       *)
(* transaction.complete(success=success): the report a CommitTransaction      *)
(* takes. The bus method Commit emits the signal with None in the place of   *)
(* the transaction: None has no attribute complete, the call raises           *)
(* AttributeError and nothing is reported.                                   *)
complete(transaction, success) ==
    IF transaction = "None" THEN <<>> ELSE <<success>>

on_commit_signal(transaction) ==
    /\ started = "yes"
    /\ \E first \in BOOLEAN :
       \E run \in {on_commit(Reply(get_profile_data_request, first, devProfile, 0))} :
       \E fail \in IF first THEN {1} ELSE {0} \cup 2..Len(run.sent) :
       \E r \in {IF fail < 2 THEN run ELSE Interrupted(run, fail)} :
          /\ sent' = r.sent
          /\ failed' = IF fail = 0 THEN {} ELSE {fail}
          /\ raised' = r.raised
          /\ completed' = complete(transaction, r.raised = "none")
          /\ current_profile_idx' = r.current
          /\ devProfile' = DeviceAfter(devProfile, r.sent, failed', 1)
    /\ lastOp' = IF transaction = "None" THEN "bus_commit" ELSE "commit"
    /\ UNCHANGED <<quirks, started, profiles, edits, callVars, added>>

(* A commit raised with a CommitTransaction of the library *)
CommitBody == on_commit_signal("CommitTransaction")

(* RatbagdDevice.Commit: self._device.emit('commit', None) *)
BusCommitBody == on_commit_signal("None")

(* The handlers run one at a time, each to its end: the main loop is not    *)
(* looked at                                                                *)
Start == StartBody /\ UNCHANGED mainloop
EditField == EditFieldBody /\ UNCHANGED mainloop
EditResolution == EditResolutionBody /\ UNCHANGED mainloop
EditButton == EditButtonBody /\ UNCHANGED mainloop
EditLed == EditLedBody /\ UNCHANGED mainloop
SetActive == SetActiveBody /\ UNCHANGED mainloop
Commit == CommitBody /\ UNCHANGED mainloop
BusCommit == BusCommitBody /\ UNCHANGED mainloop

Next ==
    \/ Start
    \/ EditField
    \/ EditResolution
    \/ EditButton
    \/ EditLed
    \/ SetActive
    \/ Commit
    \/ BusCommit

Spec == Init /\ [][Next]_vars

(* ------------------------------------------------------------------ *)
(* Single calls: one get_* or set_* call against a transport that may *)
(* deliver any response.                                              *)
(* ------------------------------------------------------------------ *)
(* The byte a delivered response holds in every position after the first two *)
CallFill == {0, 1, 4, 250, 255}

(* The first two bytes of a delivered response: the marker, the opcode      *)
(* echoed, and the two that share one byte with the marker                  *)
ResponseHeads(request) ==
    {<<ERR_MARKER_0, ERR_MARKER_1>>, <<request[0], request[1]>>,
     <<ERR_MARKER_0, 0>>, <<0, ERR_MARKER_1>>}

Responses(request) ==
    {[i \in 0..(PACKET_SIZE - 1) |-> IF i = 0 THEN h[1] ELSE IF i = 1 THEN h[2] ELSE f] :
        h \in ResponseHeads(request), f \in CallFill}

Readers == {"get_profile_data", "get_led_data", "get_resolution_data",
            "get_button_actions", "get_distance", "get_battery_data"}

ReaderRequest(op) ==
    CASE op = "get_profile_data" -> get_profile_data_request
      [] op = "get_led_data" -> get_led_data_request
      [] op = "get_resolution_data" -> get_resolution_data_request
      [] op = "get_button_actions" -> get_button_actions_request
      [] op = "get_distance" -> get_distance_request
      [] op = "get_battery_data" -> get_battery_data_request

ReaderResult(op, response) ==
    CASE op = "get_profile_data" -> get_profile_data(response)
      [] op = "get_led_data" -> get_led_data(response)
      [] op = "get_resolution_data" -> get_resolution_data(response)
      [] op = "get_button_actions" -> get_button_actions(response)
      [] op = "get_distance" -> get_distance(response)
      [] op = "get_battery_data" -> get_battery_data(response)

(* The actions given to set_button_action: of every class, found in the     *)
(* action table once, twice or not at all; keys 30 (KEY_A), 48 (KEY_B) and   *)
(* 164 (KEY_PLAYPAUSE) are in the table, 29 (KEY_LEFTCTRL) is not, and 768   *)
(* is past the end of libevdev.EV_KEY.codes                                  *)
CallActions ==
    {ActionNone,
     ActionButton(1), ActionButton(4), ActionButton(5), ActionButton(6),
     ActionSpecial("WHEEL_UP"), ActionSpecial("PROFILE_CYCLE_UP"),
     ActionKey(30), ActionKey(164), ActionKey(29), ActionKey(768),
     ActionMacro(<< <<"KEY_PRESS", 30>>, <<"KEY_RELEASE", 30>> >>),
     ActionMacro(<< <<"KEY_PRESS", 30>>, <<"KEY_RELEASE", 30>>, <<"KEY_PRESS", 48>> >>),
     ActionMacro(<< <<"KEY_PRESS", 29>>, <<"KEY_RELEASE", 29>> >>),
     ActionMacro(<< >>)}

(* The writer calls explored, with supported and unsupported values *)
WriterCalls ==
    {<<"set_profile", p>> : p \in Profiles}
    \cup {<<"save_profile">>}
    \cup {<<"set_rate", hz>> : hz \in {125, 250, 300, 500, 1000}}
    \cup {<<"set_response", ms>> : ms \in {0, 4, 6, 32, 36, 1028}}
    \cup {<<"set_snapping", e>> : e \in BOOLEAN}
    \cup {<<"set_distance", d>> : d \in {0, 1}}
    \cup {<<"set_battery_data", sleep, alert>> : sleep \in {0, 1, 4, 10}, alert \in {0, 25}}
    \cup {<<"set_dpi", k, dpi>> : k \in Dpis, dpi \in {DpiRange[1], DpiRange[2]}}
    \cup {<<"set_led", l, <<255, 0, 0>>, b, "CYCLE">> : l \in Leds, b \in {0, 96, 255}}
    \cup {<<"set_button_action", b, a>> : b \in Buttons, a \in CallActions}

(* The request a writer call builds *)
WriterRequest(call) ==
    CASE call[1] = "set_profile" -> set_profile(call[2])
      [] call[1] = "save_profile" -> save_profile
      [] call[1] = "set_rate" -> set_rate(call[2])
      [] call[1] = "set_response" -> set_response(call[2])
      [] call[1] = "set_snapping" -> set_snapping(call[2])
      [] call[1] = "set_distance" -> set_distance(call[2])
      [] call[1] = "set_battery_data" -> set_battery_data(call[2], call[3])
      [] call[1] = "set_dpi" -> set_dpi(call[2], call[3])
      [] call[1] = "set_led" -> set_led(call[2], call[3], call[4], call[5])
      [] call[1] = "set_button_action" -> set_button_action(call[2], call[3])

(* The exception a writer call ends with before it has a request to send:   *)
(* set_button_action when libevdev has no such key or the macro is empty     *)
WriterRaises(call) ==
    IF call[1] = "set_button_action"
    THEN (IF FindRow(call[3]) = -1 THEN "IndexError" ELSE "none")
    ELSE "none"

(* A variant of QueryPackets that sends the request again when the response *)
(* is the error marker, to see that a failed query is not repeated          *)
QueryPackets_Retry(request, response) ==
    IF IsErrorMarker(response) THEN <<request, request>> ELSE <<request>>

(* _query: the packets it hands to hidraw_device.send for one request; the  *)
(* response is looked at after the send and leads to no other send          *)
QueryPackets(request, response) == <<request>>

(* A get_* call: the query and the decoding of its response. The calls keep *)
(* nothing from one to the next, so each is made on a device not yet used   *)
Get(op) ==
    /\ lastOp = "none"
    /\ \E response \in Responses(ReaderRequest(op)) :
       \E r \in {ReaderResult(op, response)} :
          /\ received' = response
          /\ raised' = r.raised
          /\ returned' = IF r.raised = "none" THEN <<r>> ELSE <<>>
          /\ failed' = IF r.raised = "DeviceError" THEN {1} ELSE {}
          /\ sent' = QueryPackets(ReaderRequest(op), response)
    /\ lastOp' = op
    /\ args' = <<>>
    /\ UNCHANGED <<quirks, started, profiles, devProfile, edits, completed,
                   current_profile_idx, added, mainloop>>

(* A set_* call: bytes(request) refuses a value outside 0..255 before the   *)
(* send; otherwise the request goes out and _query looks at the response    *)
Set(call) ==
    /\ lastOp = "none"
    /\ \E request \in {WriterRequest(call)}, early \in {WriterRaises(call)} :
          IF early # "none" \/ ~Sendable(request)
          THEN /\ sent' = <<>>
               /\ received' = <<>>
               /\ raised' = IF early # "none" THEN early ELSE "ValueError"
               /\ failed' = {}
          ELSE \E response \in Responses(request) :
               \E q \in {_query(response)} :
                  /\ sent' = <<request>>
                  /\ received' = response
                  /\ raised' = q.raised
                  /\ failed' = IF q.raised = "DeviceError" THEN {1} ELSE {}
    /\ lastOp' = call[1]
    /\ args' = Tail(call)
    /\ returned' = <<>>
    /\ UNCHANGED <<quirks, started, profiles, devProfile, edits, completed,
                   current_profile_idx, added, mainloop>>

CallQuirkSets == SUBSET {QUIRK_DOUBLE_DPI, QUIRK_BATTERY_V2, QUIRK_STRIX_PROFILE}

InitCall ==
    /\ quirks \in CallQuirkSets
    /\ started = "no"
    /\ profiles = <<>>
    /\ devProfile = 0
    /\ edits = 0
    /\ lastOp = "none"
    /\ sent = <<>>
    /\ raised = "none"
    /\ completed = <<>>
    /\ current_profile_idx = -1
    /\ failed = {}
    /\ args = <<>>
    /\ received = <<>>
    /\ returned = <<>>
    /\ added = 0
    /\ mainloop = IdleLoop

(* read_profile of a profile as start() builds it, on a device that holds   *)
(* fill in its memory and answers query number fail (0: none) with the      *)
(* error marker                                                             *)
ReadProfile ==
    /\ lastOp = "none"
    /\ \E fail \in 0..5, fill \in CallFill :
       \E r \in {read_profile(NewProfile(0, 0), fail, 0, fill)} :
          /\ args' = <<fail, fill>>
          /\ sent' = r.reqs
          /\ raised' = r.raised
          /\ failed' = IF r.raised = "DeviceError" THEN {Len(r.reqs)} ELSE {}
          /\ returned' = <<r.profile>>
    /\ lastOp' = "read_profile"
    /\ received' = <<>>
    /\ UNCHANGED <<quirks, started, profiles, devProfile, edits, completed,
                   current_profile_idx, added, mainloop>>

NextCall ==
    \/ \E op \in Readers : Get(op)
    \/ \E call \in WriterCalls : Set(call)
    \/ ReadProfile

SpecCall == InitCall /\ [][NextCall]_vars


(* ------------------------------------------------------------------ *)
(* Reading the record of the last handler.                            *)
(* ------------------------------------------------------------------ *)
(* The writer or reader call a packet comes from *)
Kind(pkt) ==
    IF Opcode(pkt) = CMD_GET_PROFILE_DATA THEN "get_profile_data"
    ELSE IF Opcode(pkt) = CMD_SET_PROFILE THEN "set_profile"
    ELSE IF Opcode(pkt) = CMD_SAVE_PROFILE THEN "save_profile"
    ELSE IF Opcode(pkt) = CMD_SET_BUTTON_ACTION THEN "set_button_action"
    ELSE IF Opcode(pkt) = CMD_SET_LED THEN "set_led"
    ELSE IF Opcode(pkt) = CMD_SET_DISTANCE THEN "set_distance"
    ELSE IF Opcode(pkt) = CMD_SET_BATTERY_DATA THEN "set_battery_data"
    ELSE IF Opcode(pkt) = CMD_SET_RESOLUTION_DATA
    THEN (IF pkt[2] = NumDpis + OFFSET_RATE THEN "set_rate"
          ELSE IF pkt[2] = NumDpis + OFFSET_RESPONSE THEN "set_response"
          ELSE IF pkt[2] = NumDpis + OFFSET_SNAPPING THEN "set_snapping"
          ELSE "set_dpi")
    ELSE "query"

(* The place of a writer call in the body of the loop over the dirty profiles *)
Rank(kind) ==
    CASE kind = "set_profile" -> 0
      [] kind = "set_rate" -> 1
      [] kind = "set_response" -> 2
      [] kind = "set_snapping" -> 3
      [] kind = "set_distance" -> 4
      [] kind = "set_battery_data" -> 5
      [] kind = "set_dpi" -> 6
      [] kind = "set_button_action" -> 7
      [] kind = "set_led" -> 8
      [] kind = "save_profile" -> 9
      [] OTHER -> -1

(* The positions of sent at which the loop switches to a profile: a         *)
(* set_profile that another packet follows                                   *)
Switches == {j \in 1..(Len(sent) - 1) : Kind(sent[j]) = "set_profile"}

(* The profile the device is switched to for writing when packet j is sent, *)
(* -1 before the first switch                                                *)
ProfileAt(j) ==
    IF \E i \in Switches : i <= j
    THEN sent[CHOOSE i \in Switches : i <= j /\ \A k \in Switches : k <= j => k <= i][2]
    ELSE -1

(* The greatest index of a dirty profile marked active, or the index the    *)
(* commit read from the device when there is none                            *)
RestoreIndex ==
    IF \E p \in Profiles : profiles[p].dirty /\ profiles[p].active
    THEN CHOOSE p \in Profiles :
            /\ profiles[p].dirty /\ profiles[p].active
            /\ \A q \in Profiles : profiles[q].dirty /\ profiles[q].active => q <= p
    ELSE current_profile_idx

EveryExchangeSucceeded == failed = {}

(* ------------------------------------------------------------------ *)
(* C1                                                                  *)
(* ------------------------------------------------------------------ *)
(* C1: after a commit that read original_index and in which every exchange *)
(* succeeded, the last packet sent is set_profile(X) and the device has     *)
(* profile X selected, X being the dirty profile marked active or, when     *)
(* there is none, original_index.                                           *)
C1_RestoreWhenEveryExchangeSucceeds ==
    (lastOp = "commit" /\ EveryExchangeSucceeded /\ current_profile_idx # -1) =>
        /\ Kind(sent[Len(sent)]) = "set_profile"
        /\ sent[Len(sent)][2] = RestoreIndex
        /\ devProfile = RestoreIndex

(* What does hold: the same of the commits that report success, which are   *)
(* those that meet no disabled dirty profile                                *)
RestoreAfterSuccessfulCommit ==
    (lastOp = "commit" /\ completed = <<TRUE>>) =>
        /\ EveryExchangeSucceeded
        /\ Kind(sent[Len(sent)]) = "set_profile"
        /\ sent[Len(sent)][2] = RestoreIndex
        /\ devProfile = RestoreIndex


(* ------------------------------------------------------------------ *)
(* C2                                                                  *)
(* ------------------------------------------------------------------ *)
(* The packet at j + 1 may follow the packet at j in the body of the loop *)
Follows(j) ==
    LET a == Rank(Kind(sent[j]))
        b == Rank(Kind(sent[j + 1]))
    IN  /\ a >= 0 /\ b >= 0
        /\ (a = 0) => (b = 1)
        /\ (a \in 1..4) => (b = a + 1)
        /\ (a = 5) => (b \in 6..9)
        /\ (a \in 6..8) => (b >= a)
        /\ (a \in {6, 8} /\ b = a) => (sent[j][2] < sent[j + 1][2])
        /\ (a = 9) => (b = 0)

(* C2: in every commit the dirty profiles are processed in increasing index *)
(* order, none skipped, and the packets of each are set_profile(P), the     *)
(* five field writes (rate, response, snapping, distance, battery), set_dpi *)
(* calls, set_button_action calls, set_led calls, then save_profile, which  *)
(* comes before the set_profile of the next profile.                        *)
C2_WriteOrder ==
    (lastOp = "commit") =>
        /\ Kind(sent[1]) = "get_profile_data"
        /\ \A j \in 2..(Len(sent) - 1) : Follows(j)
        /\ Len(sent) >= 2 => Kind(sent[2]) = "set_profile"
        /\ \A i, j \in Switches : i < j => sent[i][2] < sent[j][2]
        /\ \A j \in Switches :
              /\ profiles[sent[j][2]].dirty
              /\ \A p \in Profiles :
                    (p < sent[j][2] /\ profiles[p].dirty) => \E i \in Switches : sent[i][2] = p

(* A successful commit of two dirty profiles, one with a dirty resolution   *)
(* and one with a dirty LED                                                 *)
C2_Witness ==
    /\ lastOp = "commit" /\ completed = <<TRUE>>
    /\ Cardinality(Switches) = 2
    /\ \E j \in 1..Len(sent) : Kind(sent[j]) = "set_dpi"
    /\ \E j \in 1..Len(sent) : Kind(sent[j]) = "set_led"
    /\ Cardinality({j \in 1..Len(sent) : Kind(sent[j]) = "save_profile"}) = 2


(* ------------------------------------------------------------------ *)
(* C3                                                                  *)
(* ------------------------------------------------------------------ *)
DisabledDirty == {p \in Profiles : profiles[p].dirty /\ ~profiles[p].enabled}

(* The first profile at which a commit meets the guard *)
FirstDisabledDirty == CHOOSE p \in DisabledDirty : \A q \in DisabledDirty : p <= q

DirtyFlags ==
    {x \in {"profile"} \X Profiles \X {0} : profiles[x[2]].dirty}
    \cup {x \in {"resolution"} \X Profiles \X Dpis : profiles[x[2]].resolutions[x[3]].dirty}
    \cup {x \in {"button"} \X Profiles \X Buttons : profiles[x[2]].buttons[x[3]].dirty}
    \cup {x \in {"led"} \X Profiles \X Leds : profiles[x[2]].leds[x[3]].dirty}

C5_DeviceOnActiveProfileAfterCommit ==
    [][(lastOp' = "commit" /\ profiles[devProfile].active) =>
          profiles'[devProfile'].active]_vars


(* ------------------------------------------------------------------ *)
(* C6                                                                  *)
(* ------------------------------------------------------------------ *)
(* A packet that changes the device: a set_* call or save_profile *)
IsMutation(pkt) == Rank(Kind(pkt)) >= 0

(* C6: a commit that follows a failed commit (the device is NotReady) sends *)
(* no mutation packet.                                                      *)
C6_CommitAfterFailureOnlyReads ==
    [][(lastOp = "commit" /\ completed = <<FALSE>> /\ lastOp' = "commit") =>
         \A j \in 1..Len(sent') : ~IsMutation(sent'[j])]_vars

(* ------------------------------------------------------------------ *)
(* C7                                                                  *)
(* ------------------------------------------------------------------ *)
FieldWriters == {"set_rate", "set_response", "set_snapping", "set_distance",
                 "set_battery_data"}

(* The field group a writer of a profile's own fields writes *)
GroupOf(kind) ==
    CASE kind = "set_rate" -> "rate"
      [] kind = "set_response" -> "response"
      [] kind = "set_snapping" -> "snapping"
      [] kind = "set_distance" -> "distance"
      [] kind = "set_battery_data" -> "battery"

(* The button whose action a set_button_action packet writes *)
ButtonOf(pkt) ==
    {b \in Buttons : ACTION_TABLE[_get_button_offset(b) + 1][1] = pkt[4]}

C8_SetDpiClearsDirtyFlag ==
    (lastOp = "commit") =>
        \A j \in 1..Len(sent) :
            (Kind(sent[j]) = "set_dpi" /\ j \notin failed) =>
                ~profiles[ProfileAt(j)].resolutions[sent[j][2]].dirty


(* ------------------------------------------------------------------ *)
(* C9                                                                  *)
(* ------------------------------------------------------------------ *)
(* C9: whatever get_* or set_* call received a response whose first two     *)
(* bytes are 0xff, 0xaa ended with DeviceError and returned nothing,        *)
(* whatever the other bytes; a call that received any other response did    *)
(* not end with DeviceError.                                                *)
C9_ErrorMarkerRaisesDeviceError ==
    (received # <<>>) =>
        /\ (received[0] = ERR_MARKER_0 /\ received[1] = ERR_MARKER_1) =>
              (raised = "DeviceError" /\ returned = <<>>)
        /\ ~(received[0] = ERR_MARKER_0 /\ received[1] = ERR_MARKER_1) =>
              raised # "DeviceError"

(* A get_battery_data call answered with the marker followed by non-zero    *)
(* bytes                                                                    *)
C9_Witness ==
    /\ lastOp = "get_battery_data"
    /\ received # <<>>
    /\ received[0] = ERR_MARKER_0 /\ received[1] = ERR_MARKER_1
    /\ received[4] # 0
    /\ raised = "DeviceError"

(* ------------------------------------------------------------------ *)
(* C10                                                                 *)
(* ------------------------------------------------------------------ *)
(* The debounce times the device supports: 4..32 in steps of 4 *)
SupportedResponse == {4 * n : n \in 1..8}

(* The last call asked for a value the device does not support *)
UnsupportedValue ==
    \/ lastOp = "set_rate" /\ args[1] \notin Range(POLLING_RATE)
    \/ lastOp = "set_response" /\ args[1] \notin SupportedResponse
    \/ lastOp = "set_battery_data" /\ args[1] \notin Range(SLEEP_TIMEOUT)

(* C10: set_rate, set_response and set_battery_data reject a polling rate,  *)
(* debounce time or sleep timeout outside the supported set as a caller     *)
(* error before any packet is sent.                                         *)
C10_UnsupportedValueRejected ==
    UnsupportedValue => (sent = <<>> /\ raised \notin {"none", "DeviceError"})


(* ------------------------------------------------------------------ *)
(* Codec round trips and decodings: a value written and read back     *)
(* through the device's memory, and readers given chosen responses.   *)
(* ------------------------------------------------------------------ *)
(* config.dpi_range of the devices tried, as <<min, max, step>> *)
CodecDpiRanges == {DpiRange, <<100, 400, 100>>, <<12700, 12900, 100>>}

(* The DPI candidate lists of those devices: range_to_tuple(config.dpi_range) *)
CodecDpis == UNION {Range(range_to_tuple(r)) : r \in CodecDpiRanges}

(* The resolution data of a device whose memory holds the byte a set_dpi     *)
(* request wrote for its preset: get_resolution_data reads preset k at 4+2k  *)
ResolutionMemory(request) ==
    [i \in 0..(PACKET_SIZE - 1) |->
        IF i < 2 THEN CMD_GET_RESOLUTION_DATA[i + 1]
        ELSE IF i = 4 + 2 * request[2] THEN request[4]
        ELSE 0]

(* set_dpi(k, dpi) followed by get_resolution_data *)
WriteReadDpi ==
    /\ lastOp = "none"
    /\ \E k \in Dpis, dpi \in CodecDpis :
       \E request \in {set_dpi(k, dpi)} :
          /\ args' = <<k, dpi>>
          /\ IF ~Sendable(request)
             THEN /\ sent' = <<>>
                  /\ received' = <<>>
                  /\ raised' = "ValueError"
                  /\ returned' = <<>>
             ELSE \E r \in {get_resolution_data(ResolutionMemory(request))} :
                  /\ sent' = <<request, get_resolution_data_request>>
                  /\ received' = ResolutionMemory(request)
                  /\ raised' = r.raised
                  /\ returned' = IF r.raised = "none" THEN <<r>> ELSE <<>>
    /\ lastOp' = "write_read_dpi"
    /\ failed' = {}
    /\ UNCHANGED <<quirks, started, profiles, devProfile, edits, completed,
                   current_profile_idx, added, mainloop>>

(* ------------------------------------------------------------------ *)
(* Readers given responses that hold a different byte at every offset *)
(* ------------------------------------------------------------------ *)
(* <<a, b>>: the byte at offset i >= 2 is (a * i + b) % 256, which is        *)
(* different at every offset of a packet                                     *)
Patterns == {<<1, 0>>, <<1, 254>>, <<3, 100>>}

PatternResponses(request) ==
    {[i \in 0..(PACKET_SIZE - 1) |->
         IF i < 2 THEN request[i] ELSE (p[1] * i + p[2]) % 256] : p \in Patterns}

(* A get_* call answered with such a response *)
ReadPatterned(op) ==
    /\ lastOp = "none"
    /\ \E response \in PatternResponses(ReaderRequest(op)) :
       \E r \in {ReaderResult(op, response)} :
          /\ received' = response
          /\ raised' = r.raised
          /\ returned' = IF r.raised = "none" THEN <<r>> ELSE <<>>
    /\ lastOp' = op
    /\ args' = <<>>
    /\ failed' = {}
    /\ sent' = <<ReaderRequest(op)>>
    /\ UNCHANGED <<quirks, started, profiles, devProfile, edits, completed,
                   current_profile_idx, added, mainloop>>

(* ------------------------------------------------------------------ *)
(* get_button_actions given chosen bindings                           *)
(* ------------------------------------------------------------------ *)
(* Codes of both code spaces, codes of one only and codes of neither *)
BindingCodes == {240, 241, 242, 228, 225, 230, 255, 4, 243, 0, 100}

(* The type bytes: keyboard, mouse and one that is neither *)
BindingTypes == {ACTION_TYPE_KEYBOARD, ACTION_TYPE_MOUSE, 2}

(* The button whose binding get_button_actions reads at offset i, -1 if none *)
ButtonAt(i) ==
    IF \E idx \in Buttons : i \in {_get_button_offset(idx) * 2 + 4, _get_button_offset(idx) * 2 + 5}
    THEN CHOOSE idx \in Buttons : i \in {_get_button_offset(idx) * 2 + 4, _get_button_offset(idx) * 2 + 5}
    ELSE -1

(* The button data of a device whose buttons are bound to bindings[idx] =    *)
(* <<code, type>>: each binding is 2 bytes after a 4-byte header             *)
ButtonMemory(bindings) ==
    [i \in 0..(PACKET_SIZE - 1) |->
        IF i < 2 THEN CMD_GET_BUTTON_DATA[i + 1]
        ELSE IF ButtonAt(i) = -1 THEN 0
        ELSE bindings[ButtonAt(i)][i - _get_button_offset(ButtonAt(i)) * 2 - 3]]

(* The binding of button idx in a button-data response *)
BindingOf(response, idx) ==
    <<response[_get_button_offset(idx) * 2 + 4], response[_get_button_offset(idx) * 2 + 5]>>

(* get_button_actions answered with that button data *)
ReadButtonData ==
    /\ lastOp = "none"
    /\ \E bindings \in [Buttons -> BindingCodes \X BindingTypes] :
       \E r \in {get_button_actions(ButtonMemory(bindings))} :
          /\ received' = ButtonMemory(bindings)
          /\ raised' = r.raised
          /\ returned' = IF r.raised = "none" THEN <<r>> ELSE <<>>
    /\ lastOp' = "get_button_actions"
    /\ args' = <<>>
    /\ failed' = {}
    /\ sent' = <<get_button_actions_request>>
    /\ UNCHANGED <<quirks, started, profiles, devProfile, edits, completed,
                   current_profile_idx, added, mainloop>>

(* ------------------------------------------------------------------ *)
(* LED brightness read and written                                    *)
(* ------------------------------------------------------------------ *)
(* The brightness levels of the device *)
LedLevels == 0..4

(* The LED data of a device whose first LED is at brightness level: each    *)
(* LED takes mode, brightness, r, g, b from offset 4 on                     *)
LedMemory(level) ==
    [i \in 0..(PACKET_SIZE - 1) |->
        IF i < 2 THEN CMD_GET_LED_DATA[i + 1] ELSE IF i = 5 THEN level ELSE 0]

(* get_led_data followed by set_led of LED 0 with the values read *)
ReadWriteLed ==
    /\ lastOp = "none"
    /\ \E level \in LedLevels :
       \E r \in {get_led_data(LedMemory(level))} :
          /\ args' = <<level>>
          /\ received' = LedMemory(level)
          /\ raised' = r.raised
          /\ returned' = <<r>>
          /\ sent' = <<get_led_data_request,
                       set_led(0, r.leds[0].color, r.leds[0].brightness, r.leds[0].mode)>>
    /\ lastOp' = "read_write_led"
    /\ failed' = {}
    /\ UNCHANGED <<quirks, started, profiles, devProfile, edits, completed,
                   current_profile_idx, added, mainloop>>

(* set_led of LED 0 with any brightness of the model *)
WriteLed ==
    /\ lastOp = "none"
    /\ \E brightness \in 0..255 :
          /\ args' = <<brightness>>
          /\ sent' = <<set_led(0, <<0, 0, 0>>, brightness, "ON")>>
    /\ lastOp' = "write_led"
    /\ received' = <<>>
    /\ raised' = "none"
    /\ returned' = <<>>
    /\ failed' = {}
    /\ UNCHANGED <<quirks, started, profiles, devProfile, edits, completed,
                   current_profile_idx, added, mainloop>>

(* set_rate(hz) for a supported rate followed by get_resolution_data on a   *)
(* device that holds the byte written                                       *)
WriteReadRate ==
    /\ lastOp = "none"
    /\ \E hz \in Range(POLLING_RATE) :
       \E request \in {set_rate(hz)} :
       \E r \in {get_resolution_data(ResolutionMemory(request))} :
          /\ args' = <<hz>>
          /\ sent' = <<request, get_resolution_data_request>>
          /\ received' = ResolutionMemory(request)
          /\ raised' = r.raised
          /\ returned' = IF r.raised = "none" THEN <<r>> ELSE <<>>
    /\ lastOp' = "write_read_rate"
    /\ failed' = {}
    /\ UNCHANGED <<quirks, started, profiles, devProfile, edits, completed,
                   current_profile_idx, added, mainloop>>

(* ------------------------------------------------------------------ *)
(* A key binding read and written back                                 *)
(* ------------------------------------------------------------------ *)
(* The codes a device may hold with the keyboard type byte *)
KeyCodes == 0..255

(* read_profile on a device whose buttons are all bound to the keyboard     *)
(* code K: the action it stores for button 0 (get_button_actions, then the  *)
(* conversion of a Key action into a macro), and set_button_action of that  *)
(* action, unchanged, for the same button                                   *)
ReadWriteKey ==
    /\ lastOp = "none"
    /\ \E K \in KeyCodes :
       \E memory \in {ButtonMemory([idx \in Buttons |-> <<K, ACTION_TYPE_KEYBOARD>>])} :
       \E r \in {get_button_actions(memory)} :
       \E action \in {ReadAction(r.buttons[0])} :
          /\ args' = <<K>>
          /\ received' = memory
          /\ raised' = ActionArgsNew(action).raised
          /\ returned' = <<action>>
          /\ sent' = <<get_button_actions_request, set_button_action(0, action)>>
    /\ lastOp' = "read_write_key"
    /\ failed' = {}
    /\ UNCHANGED <<quirks, started, profiles, devProfile, edits, completed,
                   current_profile_idx, added, mainloop>>

NextCodec ==
    \/ ReadWriteKey
    \/ WriteReadDpi
    \/ WriteReadRate
    \/ \E op \in Readers : ReadPatterned(op)
    \/ ReadButtonData
    \/ ReadWriteLed
    \/ WriteLed

SpecCodec == InitCall /\ [][NextCodec]_vars

(* ------------------------------------------------------------------ *)
(* C11                                                                 *)
(* ------------------------------------------------------------------ *)
(* C11: for every dpi of a DPI candidate list, with the DOUBLE_DPI quirk    *)
(* set or unset, get_resolution_data decodes the byte set_dpi(k, dpi) wrote *)
(* back to dpi.                                                             *)
C11_DpiRoundTrip ==
    (lastOp = "write_read_dpi") =>
        /\ raised = "none"
        /\ returned[1].dpis[args[1]] = args[2]

(* What does hold: the round trip gives dpi back exactly for the multiples  *)
(* of 50 from 50 to 12800 without the quirk, and for the multiples of 100   *)
(* from 100 to 25600 with it                                                *)
DpiRoundTripWhenRepresentable ==
    (lastOp = "write_read_dpi") =>
        ((raised = "none" /\ returned[1].dpis[args[1]] = args[2])
         <=> IF _has_quirk(QUIRK_DOUBLE_DPI)
             THEN args[2] % 100 = 0 /\ args[2] >= 100 /\ args[2] <= 25600
             ELSE args[2] % 50 = 0 /\ args[2] >= 50 /\ args[2] <= 12800)


(* ------------------------------------------------------------------ *)
(* C12                                                                 *)
(* ------------------------------------------------------------------ *)
(* C12: get_profile_data, given a response without the error marker,        *)
(* completes and returns the firmware versions and, as the profile index,   *)
(* the byte at offset 9 with the STRIX_PROFILE quirk and the byte at offset *)
(* 10 without it.                                                           *)
C12_ProfileIndexOffset ==
    (lastOp = "get_profile_data") =>
        /\ raised = "none"
        /\ returned # <<>>
        /\ returned[1].profile =
              received[IF _has_quirk(QUIRK_STRIX_PROFILE) THEN 9 ELSE 10]
        /\ returned[1].versions = <<ReversedSlice(received, 13, 15),
                                    ReversedSlice(received, 4, 6)>>

(* What does hold: the same without the quirk; with it the call ends with   *)
(* NameError and returns nothing                                            *)
ProfileIndexWithoutStrix ==
    (lastOp = "get_profile_data") =>
        IF _has_quirk(QUIRK_STRIX_PROFILE)
        THEN raised = "NameError" /\ returned = <<>>
        ELSE /\ raised = "none"
             /\ returned[1].profile = received[10]
             /\ returned[1].versions = <<ReversedSlice(received, 13, 15),
                                         ReversedSlice(received, 4, 6)>>


(* ------------------------------------------------------------------ *)
(* C13                                                                 *)
(* ------------------------------------------------------------------ *)
(* The sleep timeout a raw byte stands for: the table entry, 0 (disabled)   *)
(* for a byte past the table                                                *)
SleepOf(byte) == IF byte < Len(SLEEP_TIMEOUT) THEN SLEEP_TIMEOUT[byte + 1] ELSE 0

(* C13 as stated: BATTERY_V2 exchanges the offsets of the charge level and  *)
(* the sleep timeout (4 and 6) and the battery alert is read from offset 5  *)
(* with and without the quirk.                                              *)
C13_BatteryV2SwapsChargeAndSleep ==
    (lastOp = "get_battery_data" /\ raised = "none") =>
        /\ returned[1].alert = received[5] * 25
        /\ returned[1].sleep =
              SleepOf(received[IF _has_quirk(QUIRK_BATTERY_V2) THEN 6 ELSE 4])
        /\ returned[1].charge =
              received[IF _has_quirk(QUIRK_BATTERY_V2) THEN 4 ELSE 6] * 25

(* C13, amended: without BATTERY_V2 get_battery_data reads the sleep        *)
(* timeout at offset 4, the battery alert at 5 and the charge level at 6;   *)
(* with it the charge level at 4, the sleep timeout at 5 and the battery    *)
(* alert at 6. The quirk moves all three fields and changes nothing else of *)
(* their decoding.                                                          *)
C13_BatteryV2Offsets ==
    (lastOp = "get_battery_data" /\ raised = "none") =>
        IF _has_quirk(QUIRK_BATTERY_V2)
        THEN /\ returned[1].charge = received[4] * 25
             /\ returned[1].sleep = SleepOf(received[5])
             /\ returned[1].alert = received[6] * 25
        ELSE /\ returned[1].sleep = SleepOf(received[4])
             /\ returned[1].alert = received[5] * 25
             /\ returned[1].charge = received[6] * 25

(* A battery response with bytes 2, 3, 4 at offsets 4, 5, 6 read with the   *)
(* quirk: charge 50, sleep 5 minutes, alert 100                             *)
C13_Witness ==
    /\ lastOp = "get_battery_data" /\ raised = "none"
    /\ _has_quirk(QUIRK_BATTERY_V2)
    /\ received[4] = 2 /\ received[5] = 3 /\ received[6] = 4
    /\ returned[1] = [raised |-> "none", sleep |-> 5, alert |-> 100, charge |-> 50]


(* ------------------------------------------------------------------ *)
(* C14                                                                 *)
(* ------------------------------------------------------------------ *)
(* The rows of the action table that carry the action a *)
RowsOf(a) ==
    {i \in DOMAIN ACTION_TABLE :
        ACTION_TABLE[i][2] = a.cls /\ ACTION_TABLE[i][3] = a.args}

(* C14: set_button_action, given a Button, Special or None action that      *)
(* several rows of the action table carry, writes the physical code of the  *)
(* first of them: ActionButton 4 goes out as 0xe4 (228), not 0xe1, and      *)
(* ActionButton 5 as 0xe5 (229), not 0xe2.                                  *)
C14_FirstDeclaredRowWins ==
    (lastOp = "set_button_action" /\ sent # <<>>) =>
        /\ (args[2].cls \in {"ActionButton", "ActionSpecial", "ActionNone"}
                /\ RowsOf(args[2]) # {}) =>
              \E i \in RowsOf(args[2]) :
                  /\ \A j \in RowsOf(args[2]) : i <= j
                  /\ sent[1][6] = ACTION_TABLE[i][1]
                  /\ sent[1][7] = ACTION_TYPE_MOUSE
        /\ args[2] = ActionButton(4) => sent[1][6] = 228
        /\ args[2] = ActionButton(5) => sent[1][6] = 229

(* set_button_action(ActionButton 4) sent, an action two rows carry *)
C14_Witness ==
    /\ lastOp = "set_button_action" /\ sent # <<>>
    /\ args[2] = ActionButton(4)
    /\ Cardinality(RowsOf(args[2])) = 2
    /\ sent[1][6] = 228


(* ------------------------------------------------------------------ *)
(* C15                                                                 *)
(* ------------------------------------------------------------------ *)
(* The action of the first row of a set of rows that has the code, the None *)
(* action if there is none                                                  *)
FirstWithCode(code, rows) ==
    The({IF \E i \in rows : table[i][1] = code
         THEN [cls |-> table[FirstOf({i \in rows : table[i][1] = code})][2],
               args |-> table[FirstOf({i \in rows : table[i][1] = code})][3]]
         ELSE ActionNone : table \in {ACTION_TABLE}})

KeyRows == The({{i \in DOMAIN table : table[i][2] = "ActionKey"} : table \in {ACTION_TABLE}})
NonKeyRows == The({{i \in DOMAIN table : table[i][2] # "ActionKey"} : table \in {ACTION_TABLE}})

(* C15: get_button_actions decodes a binding with the keyboard type byte    *)
(* from the ActionKey rows only and a binding with the mouse type byte from *)
(* the other rows only; the codes 0xf0, 0xf1 and 0xf2, which both code      *)
(* spaces have, give keys under the keyboard type and buttons 1, 2, 3 under *)
(* the mouse type.                                                          *)
C15_TypeByteSelectsCodeSpace ==
    (lastOp = "get_button_actions" /\ raised = "none") =>
        \A idx \in Buttons :
            \E b \in {BindingOf(received, idx)}, a \in {returned[1].buttons[idx]} :
                /\ b[2] = ACTION_TYPE_KEYBOARD => a = FirstWithCode(b[1], KeyRows)
                /\ b[2] = ACTION_TYPE_MOUSE => a = FirstWithCode(b[1], NonKeyRows)
                /\ b = <<240, ACTION_TYPE_KEYBOARD>> => a = ActionKey("KEY_PLAYPAUSE")
                /\ b = <<241, ACTION_TYPE_KEYBOARD>> => a = ActionKey("KEY_STOP")
                /\ b = <<242, ACTION_TYPE_KEYBOARD>> => a = ActionKey("KEY_PREVIOUSSONG")
                /\ b = <<240, ACTION_TYPE_MOUSE>> => a = ActionButton(1)
                /\ b = <<241, ACTION_TYPE_MOUSE>> => a = ActionButton(2)
                /\ b = <<242, ACTION_TYPE_MOUSE>> => a = ActionButton(3)

(* Button 0 bound to code 0xf0 with the keyboard type byte was read as the  *)
(* key KEY_PLAYPAUSE                                                        *)
C15_Witness ==
    /\ lastOp = "get_button_actions"
    /\ raised = "none"
    /\ BindingOf(received, 0) = <<240, ACTION_TYPE_KEYBOARD>>
    /\ returned[1].buttons[0] = ActionKey("KEY_PLAYPAUSE")


(* ------------------------------------------------------------------ *)
(* C17                                                                 *)
(* ------------------------------------------------------------------ *)
(* No row of the action table matches the binding <<code, type>> *)
MatchesNoRow(b) ==
    The({\A i \in DOMAIN table : ~CodeMatches(b[1], b[2], table[i]) :
         table \in {ACTION_TABLE}})

(* C17: get_button_actions, given button data without the error marker,     *)
(* raises nothing and returns one action for every button index; a binding  *)
(* that matches no row of the action table is returned as the None action.  *)
C17_UnmatchedBindingIsNone ==
    (lastOp = "get_button_actions" /\ ~IsErrorMarker(received)) =>
        /\ raised = "none"
        /\ returned # <<>>
        /\ DOMAIN returned[1].buttons = Buttons
        /\ \A idx \in Buttons :
              MatchesNoRow(BindingOf(received, idx))
                  => returned[1].buttons[idx] = ActionNone

(* Button 0 bound to code 100, which no row has, with the mouse type byte   *)
(* was read as the None action                                              *)
C17_Witness ==
    /\ lastOp = "get_button_actions"
    /\ raised = "none"
    /\ BindingOf(received, 0) = <<100, ACTION_TYPE_MOUSE>>
    /\ MatchesNoRow(BindingOf(received, 0))
    /\ returned[1].buttons[0] = ActionNone


(* ------------------------------------------------------------------ *)
(* C16                                                                 *)
(* ------------------------------------------------------------------ *)
(* The ActionKey rows of the action table that carry the name of key value  *)
(* key                                                                      *)
KeyRowsOf(key) ==
    The({{i \in DOMAIN table : table[i][2] = "ActionKey" /\ table[i][3] = <<EvKeyName(key)>>} :
         table \in {ACTION_TABLE}})

(* C16: set_button_action, given a macro with at least one event, does what *)
(* it does given the Key action of the key of the first event, whatever     *)
(* events follow: it hands the same single packet to the transport, which   *)
(* carries the code of that key's row and the keyboard type byte when the   *)
(* action table has the key. A macro press A, release A, press B is         *)
(* written as the key A: code 4, type keyboard.                             *)
C16_MacroWrittenAsFirstKey ==
    (lastOp = "set_button_action" /\ args[2].cls = "ActionMacro"
        /\ Len(args[2].args) > 0) =>
        \E key \in {args[2].args[1][2]} :
            /\ (raised = "IndexError") <=> ~HasEvKey(key)
            /\ HasEvKey(key) =>
                  /\ Len(sent) = 1
                  /\ sent[1] = set_button_action(args[1], ActionKey(key))
            /\ (HasEvKey(key) /\ KeyRowsOf(key) # {}) =>
                  /\ \E i \in KeyRowsOf(key) : sent[1][6] = ACTION_TABLE[i][1]
                  /\ sent[1][7] = ACTION_TYPE_KEYBOARD
            /\ key = 30 => (sent[1][6] = 4 /\ sent[1][7] = ACTION_TYPE_KEYBOARD)

(* set_button_action sent the macro press A, release A, press B as one      *)
(* packet with the code of the key A and the keyboard type byte             *)
C16_Witness ==
    /\ lastOp = "set_button_action"
    /\ args[2] = ActionMacro(<< <<"KEY_PRESS", 30>>, <<"KEY_RELEASE", 30>>, <<"KEY_PRESS", 48>> >>)
    /\ Len(sent) = 1
    /\ sent[1][6] = 4
    /\ sent[1][7] = ACTION_TYPE_KEYBOARD


(* ------------------------------------------------------------------ *)
(* C18                                                                 *)
(* ------------------------------------------------------------------ *)
(* The action has no row in the action table: the loop over ACTION in       *)
(* set_button_action ends without break                                     *)
HasNoRow(rba_new) ==
    The({/\ new.raised = "none"
         /\ \A i \in DOMAIN table : ~(table[i][2] = cls /\ table[i][3] = new.args) :
         new \in {ActionArgsNew(rba_new)},
         cls \in {ActionClassNew(rba_new)},
         table \in {ACTION_TABLE}})

(* C18: set_button_action, given an action no row of the action table      *)
(* carries (a key without a row, a button above 5, a special without a row, *)
(* a macro whose first key has no row), hands one packet to the transport,  *)
(* with the sentinel 0xff as the action code and the mouse type byte, and   *)
(* raises nothing unless the device answers with the error marker.          *)
C18_UnmatchedActionWritesSentinel ==
    (lastOp = "set_button_action" /\ HasNoRow(args[2])) =>
        /\ Len(sent) = 1
        /\ Opcode(sent[1]) = CMD_SET_BUTTON_ACTION
        /\ sent[1][6] = 255
        /\ sent[1][7] = ACTION_TYPE_MOUSE
        /\ (raised = "none") <=> ~IsErrorMarker(received)
        /\ raised \in {"none", "DeviceError"}

(* set_button_action(ActionKey KEY_LEFTCTRL), a key without a row, sent the *)
(* sentinel and raised nothing                                              *)
C18_Witness ==
    /\ lastOp = "set_button_action"
    /\ args[2] = ActionKey(29)
    /\ HasNoRow(args[2])
    /\ Len(sent) = 1
    /\ sent[1][6] = 255
    /\ sent[1][7] = ACTION_TYPE_MOUSE
    /\ raised = "none"

(* In a commit the packet of an action without a row is not the last one    *)
(* unless its exchange failed: the writes after it follow                   *)
UnmatchedActionDoesNotEndCommit ==
    (lastOp = "commit") =>
        \A j \in 1..Len(sent) :
            (Kind(sent[j]) = "set_button_action" /\ sent[j][6] = 255 /\ j \notin failed)
                => j < Len(sent)

(* A commit wrote the sentinel for a button and went on to save_profile *)
UnmatchedActionWitness ==
    /\ lastOp = "commit"
    /\ \E j \in 1..Len(sent) :
          /\ Kind(sent[j]) = "set_button_action" /\ sent[j][6] = 255
          /\ Kind(sent[Len(sent)]) = "save_profile"


(* ------------------------------------------------------------------ *)
(* start() on a device that reports any profile index                 *)
(* ------------------------------------------------------------------ *)
(* The values of the profile index byte of the profile data: the driver     *)
(* takes the number of profiles from the device file, the index from the    *)
(* device                                                                   *)
ReportedProfiles == 0..255

InitStart ==
    /\ quirks \in QuirkSets
    /\ started = "no"
    /\ profiles = <<>>
    /\ devProfile \in ReportedProfiles
    /\ edits = 0
    /\ lastOp = "none"
    /\ sent = <<>>
    /\ raised = "none"
    /\ completed = <<>>
    /\ current_profile_idx = -1
    /\ failed = {}
    /\ args = <<>>
    /\ received = <<>>
    /\ returned = <<>>
    /\ added = 0
    /\ mainloop = IdleLoop

NextStart == Start

SpecStart == InitStart /\ [][NextStart]_vars

(* The profiles of the model that are active *)
ActiveProfiles == {p \in DOMAIN profiles : profiles[p].active}

(* ------------------------------------------------------------------ *)
(* C19                                                                 *)
(* ------------------------------------------------------------------ *)
(* C19: in the model start() builds exactly one profile is active, whatever *)
(* profile index byte the device reports and also when the profile-data     *)
(* query fails.                                                             *)
C19_ExactlyOneActiveAfterStart ==
    (lastOp = "start" /\ started = "yes") => Cardinality(ActiveProfiles) = 1

(* What does hold: never more than one profile is active; one is exactly    *)
(* when the query fails (index 0 is taken) or the reported index is below   *)
(* the number of profiles, and then it is the profile of that index         *)
ActiveAfterStart ==
    (lastOp = "start" /\ started = "yes") =>
        /\ current_profile_idx = (IF 1 \in failed THEN 0 ELSE sent[Len(sent)][2])
        /\ ActiveProfiles = {current_profile_idx} \cap Profiles


(* ------------------------------------------------------------------ *)
(* C20                                                                 *)
(* ------------------------------------------------------------------ *)
(* The command of each get_* and set_* call *)
CommandOf(op) ==
    CASE op = "get_profile_data" -> CMD_GET_PROFILE_DATA
      [] op = "get_led_data" -> CMD_GET_LED_DATA
      [] op = "get_resolution_data" -> CMD_GET_RESOLUTION_DATA
      [] op = "get_button_actions" -> CMD_GET_BUTTON_DATA
      [] op = "get_distance" -> CMD_GET_DISTANCE
      [] op = "get_battery_data" -> CMD_GET_BATTERY_DATA
      [] op = "set_profile" -> CMD_SET_PROFILE
      [] op = "save_profile" -> CMD_SAVE_PROFILE
      [] op = "set_button_action" -> CMD_SET_BUTTON_ACTION
      [] op = "set_led" -> CMD_SET_LED
      [] op \in {"set_dpi", "set_rate", "set_response", "set_snapping"}
            -> CMD_SET_RESOLUTION_DATA
      [] op = "set_distance" -> CMD_SET_DISTANCE
      [] op = "set_battery_data" -> CMD_SET_BATTERY_DATA

(* The positions after the opcode each call assigns to: request[i] = ...    *)
AssignedBytes(op) ==
    CASE op = "set_profile" -> {2}
      [] op = "set_button_action" -> {4, 5, 6, 7}
      [] op = "set_led" -> {2, 4, 5, 6, 7, 8}
      [] op \in {"set_dpi", "set_rate", "set_response", "set_snapping"} -> {2, 4}
      [] op = "set_distance" -> {4}
      [] op = "set_battery_data" -> {4, 6}
      [] OTHER -> {}

(* C20: every packet a get_* or set_* call hands to the transport has       *)
(* exactly 64 bytes, the two opcode bytes of the call's command at 0 and 1  *)
(* and zero in every position the call does not assign to.                  *)
C20_PacketShape ==
    (lastOp \in Readers \cup {call[1] : call \in WriterCalls}) =>
        \A j \in DOMAIN sent :
            /\ DOMAIN sent[j] = 0..63
            /\ Opcode(sent[j]) = CommandOf(lastOp)
            /\ \A i \in 2..63 : i \notin AssignedBytes(lastOp) => sent[j][i] = 0

(* set_led handed over a packet of 64 bytes with the colour at 6..8, the    *)
(* brightness at 5, the mode at 4 and zero after it                         *)
C20_Witness ==
    /\ lastOp = "set_led"
    /\ Len(sent) = 1
    /\ DOMAIN sent[1] = 0..63
    /\ Opcode(sent[1]) = CMD_SET_LED
    /\ sent[1][6] = 255
    /\ sent[1][5] > 0
    /\ \A i \in 9..63 : sent[1][i] = 0


(* ------------------------------------------------------------------ *)
(* The main loop of the daemon: GLib.MainLoop().run() takes one call  *)
(* at a time and runs its handler to the end; every exchange of a     *)
(* handler is _query: send, then recv.                                *)
(* ------------------------------------------------------------------ *)
(* The calls that reach the loop: the probe of a device, an edit of the     *)
(* model, SetActive of a profile and Commit of the device                   *)
WireCalls == {"probe", "edit", "set_active", "commit"}

(* The state of the driver and of the model, apart from the loop *)
handlerVars == <<quirks, started, profiles, devProfile, edits, lastOp, sent, raised,
                 completed, current_profile_idx, failed, args, received, returned,
                 added>>

(* The call has a handler to run: the objects of a device are on the bus    *)
(* once it has been probed                                                  *)
CanRun(c) ==
    CASE c = "probe" -> started = "no"
      [] c = "edit" -> started = "yes" /\ edits < MaxEdits
      [] OTHER -> started = "yes"

(* A call arrives while the loop is idle or a handler is running *)
Arrive ==
    /\ Len(mainloop.queue) < MaxQueue
    /\ \E c \in WireCalls : mainloop' = [mainloop EXCEPT !.queue = Append(@, c)]
    /\ UNCHANGED handlerVars

(* A variant of MainLoopIdle that lets the loop take a call while a handler *)
(* is running, to see that the order on the transport rests on the loop     *)
(* running one handler at a time                                            *)
MainLoopIdle_Reentrant == TRUE

(* No handler is running *)
MainLoopIdle == mainloop.owner = "idle"

(* The handler of a call: what it does to the model and what it will have   *)
(* sent when it ends                                                        *)
HandlerBody(c) ==
    CASE c = "probe" -> StartBody
      [] c = "edit" -> EditFieldBody \/ EditResolutionBody \/ EditButtonBody \/ EditLedBody
      [] c = "set_active" -> SetActiveBody
      [] c = "commit" -> CommitBody

(* The loop takes the next call and starts its handler *)
Dispatch ==
    /\ MainLoopIdle
    /\ mainloop.queue # <<>>
    /\ CanRun(Head(mainloop.queue))
    /\ HandlerBody(Head(mainloop.queue))
    /\ mainloop' = [queue |-> Tail(mainloop.queue),
                    owner |-> Head(mainloop.queue),
                    run |-> 1 - mainloop.run,
                    at |-> 0,
                    flight |-> mainloop.flight]

(* A call for an object that is not on the bus is answered with an error *)
Discard ==
    /\ MainLoopIdle
    /\ mainloop.queue # <<>>
    /\ ~CanRun(Head(mainloop.queue))
    /\ mainloop' = [mainloop EXCEPT !.queue = Tail(@)]
    /\ UNCHANGED handlerVars

(* The requests of the running handler that are awaiting their response *)
OwnInFlight ==
    {j \in DOMAIN mainloop.flight : mainloop.flight[j] = <<mainloop.owner, mainloop.run>>}

(* _query: hidraw_device.send(bytes(request)) of the handler's next packet *)
Send ==
    /\ mainloop.owner # "idle"
    /\ mainloop.at < Len(sent)
    /\ OwnInFlight = {}
    /\ mainloop' = [mainloop EXCEPT
           !.at = @ + 1,
           !.flight = Append(@, <<mainloop.owner, mainloop.run>>)]
    /\ UNCHANGED handlerVars

(* _query: hidraw_device.recv() *)
Recv ==
    /\ mainloop.flight # <<>>
    /\ mainloop' = [mainloop EXCEPT !.flight = Tail(@)]
    /\ UNCHANGED handlerVars

(* The handler returns to the loop *)
Finish ==
    /\ mainloop.owner # "idle"
    /\ mainloop.at = Len(sent)
    /\ OwnInFlight = {}
    /\ mainloop' = [mainloop EXCEPT !.owner = "idle"]
    /\ UNCHANGED handlerVars

NextWire ==
    \/ Arrive
    \/ Dispatch
    \/ Discard
    \/ Send
    \/ Recv
    \/ Finish

(* A device without quirks: the quirks change what the packets carry, not   *)
(* when they are sent                                                       *)
InitWire == Init /\ quirks = {}

SpecWire == InitWire /\ [][NextWire]_vars

(* ------------------------------------------------------------------ *)
(* C21                                                                 *)
(* ------------------------------------------------------------------ *)
(* C21: on the transport of a device at most one request is awaiting its    *)
(* response, and it is a request of the handler that is running: start(),   *)
(* commits and profile switches send only between a receive and the next    *)
(* send, never between a send of another handler and its receive.           *)
C21_OneRequestInFlight ==
    /\ Len(mainloop.flight) <= 1
    /\ mainloop.flight # <<>> =>
          /\ mainloop.flight[1] = <<mainloop.owner, mainloop.run>>
          /\ mainloop.at >= 1

(* A call is waiting while the request of a commit is awaiting its response *)
C21_Witness ==
    /\ mainloop.owner = "commit"
    /\ mainloop.flight = << <<"commit", mainloop.run>> >>
    /\ mainloop.at >= 2
    /\ mainloop.queue = <<"set_active">>


(* ------------------------------------------------------------------ *)
(* C22                                                                 *)
(* ------------------------------------------------------------------ *)
(* C22: the notifications of a profile switch send exactly one packet,      *)
(* set_profile(i) for the profile i whose active flag became true, and none *)
(* for a profile whose flag became false; apart from the active flags that  *)
(* set_active() itself sets, no dirty flag and no other field of the model  *)
(* changes.                                                                 *)
C22_ProfileSwitchSendsOneSetProfile ==
    [][(lastOp' = "set_active") =>
         \E i \in Profiles :
            /\ ~profiles[i].active /\ profiles'[i].active
            /\ sent' = <<set_profile(i)>>
            /\ \A q \in Profiles :
                  /\ profiles'[q] = [profiles[q] EXCEPT !.active = (q = i)]
                  /\ (profiles[q].active /\ ~profiles'[q].active) =>
                        \A j \in DOMAIN sent' : sent'[j][2] # q
            /\ edits' = edits]_vars

(* A profile switch after an edit: one set_profile for the profile now      *)
(* active, the dirty flag of the edit still set                             *)
C22_Witness ==
    /\ lastOp = "set_active"
    /\ Len(sent) = 1
    /\ Kind(sent[1]) = "set_profile"
    /\ profiles[sent[1][2]].active
    /\ \E q \in Profiles : profiles[q].dirty /\ ~profiles[q].active


(* ------------------------------------------------------------------ *)
(* C23                                                                 *)
(* ------------------------------------------------------------------ *)
(* C23 as stated: 'device-added' is emitted at most once, and only after a  *)
(* start() that read the device's profiles: no exchange failed and every    *)
(* profile is enabled.                                                      *)
C23_AddedOnlyAfterReadSucceeded ==
    /\ added <= 1
    /\ (lastOp = "start" /\ added = 1) =>
          /\ failed = {}
          /\ \A p \in Profiles : profiles[p].enabled

(* C23, amended: probe emits 'device-added' exactly once when start()       *)
(* returns and never otherwise: not for a rodent without input or output    *)
(* reports and not when start() raises. start() returns also when exchanges *)
(* failed with DeviceError, so the device is announced with the profiles it *)
(* could not read left at enabled = false.                                  *)
C23_AddedWhenStartReturns ==
    /\ added <= 1
    /\ added = 1 <=> started = "yes"
    /\ lastOp = "start" =>
          /\ started = "yes" <=> (raised = "none" /\ sent # <<>>)
          /\ raised \in {"none", "NameError"}

(* 'device-added' after a start() in which the reads of a profile failed *)
C23_Witness ==
    /\ lastOp = "start"
    /\ added = 1
    /\ failed # {}
    /\ \E p \in Profiles : ~profiles[p].enabled


(* ------------------------------------------------------------------ *)
(* C24                                                                 *)
(* ------------------------------------------------------------------ *)
(* C24: a get_* call hands exactly one packet, its query, to the transport  *)
(* whatever the response is; when the response is the error marker the call *)
(* ends with DeviceError, returns nothing and has sent nothing again.       *)
(* read_profile sends each of its five queries at most once, in order, and  *)
(* none after one that failed: never more than five packets.                *)
C24_ReadersSendOnce ==
    /\ lastOp \in Readers =>
          /\ sent = <<ReaderRequest(lastOp)>>
          /\ IsErrorMarker(received) => (raised = "DeviceError" /\ returned = <<>>)
    /\ lastOp = "read_profile" =>
          /\ Len(sent) <= 5
          /\ \A i, j \in DOMAIN sent : i < j => sent[i][1] < sent[j][1]
          /\ \A j \in DOMAIN sent : sent[j][0] = CMD_GET_LED_DATA[1] /\ sent[j][1] \in 3..7
          /\ raised = "DeviceError" => (args[1] # 0 /\ Len(sent) = args[1])
          /\ args[1] # 0 => (raised # "none" /\ Len(sent) <= args[1])

(* get_resolution_data answered with the error marker: one packet sent,     *)
(* DeviceError raised                                                       *)
C24_Witness ==
    /\ lastOp = "get_resolution_data"
    /\ IsErrorMarker(received)
    /\ Len(sent) = 1
    /\ raised = "DeviceError"

(* read_profile whose third query failed sent three packets *)
ReadProfileStopsAtFailure ==
    /\ lastOp = "read_profile"
    /\ args[1] = 3
    /\ Len(sent) = 3
    /\ raised = "DeviceError"


(* ------------------------------------------------------------------ *)
(* C25                                                                 *)
(* ------------------------------------------------------------------ *)
(* The positions of the set_profile packets among pkts *)
SetProfileAt(pkts) == {j \in DOMAIN pkts : Kind(pkts[j]) = "set_profile"}

(* The packets of a start(): the profile-data query, then for every profile *)
(* in increasing index order set_profile of that profile and after it only  *)
(* queries, and as the last packet set_profile(c)                           *)
StartOrder(pkts, c) ==
    /\ Len(pkts) >= 2
    /\ pkts[1] = get_profile_data_request
    /\ 2 \in SetProfileAt(pkts)
    /\ Len(pkts) \in SetProfileAt(pkts)
    /\ pkts[Len(pkts)][2] = c
    /\ Cardinality(SetProfileAt(pkts)) = NumProfiles + 1
    /\ \A j \in SetProfileAt(pkts) \ {Len(pkts)} :
          pkts[j][2] = Cardinality({i \in SetProfileAt(pkts) : i < j})
    /\ \A j \in DOMAIN pkts \ (SetProfileAt(pkts) \cup {1}) : Kind(pkts[j]) = "query"

(* C25: the packets of every start() are in that order, with c the index    *)
(* the device reported at the beginning, 0 if that query failed.            *)
C25_StartOrder ==
    [][(lastOp' = "start" /\ started' # "skipped") =>
          StartOrder(sent', IF 1 \in failed' THEN 0 ELSE devProfile)]_vars

(* What does hold: the same of every start() that returns *)
StartOrderWhenStartReturns ==
    [][(lastOp' = "start" /\ started' = "yes") =>
          StartOrder(sent', IF 1 \in failed' THEN 0 ELSE devProfile)]_vars


(* ------------------------------------------------------------------ *)
(* C26                                                                 *)
(* ------------------------------------------------------------------ *)
(* C26: get_led_data reads a device level b in 0..4 as min(64 b, 255);      *)
(* set_led writes a brightness in 0..255 as a level in 0..4 that is nearest *)
(* to brightness / 64; writing the brightness read for a level b gives b.   *)
C26_LedBrightnessScaling ==
    /\ lastOp = "read_write_led" =>
          /\ raised = "none"
          /\ returned[1].leds[0].brightness = Min(args[1] * 64, 255)
          /\ sent[2][5] = args[1]
    /\ lastOp = "write_led" =>
          /\ sent[1][5] \in 0..4
          /\ 64 * sent[1][5] - 32 <= args[1]
          /\ args[1] <= 64 * sent[1][5] + 32

(* Level 4 was read as 255 and written back as 4 *)
C26_Witness ==
    /\ lastOp = "read_write_led"
    /\ args = <<4>>
    /\ returned[1].leds[0].brightness = 255
    /\ sent[2][5] = 4


(* ------------------------------------------------------------------ *)
(* C27                                                                 *)
(* ------------------------------------------------------------------ *)
(* C27: set_rate(hz) writes the index of hz in (125, 250, 500, 1000) and    *)
(* get_resolution_data decodes the rate byte k in 0..3 to the k-th entry,   *)
(* so the rate read back is hz.                                             *)
C27_RateRoundTrip ==
    (lastOp = "write_read_rate") =>
        /\ raised = "none"
        /\ POLLING_RATE[sent[1][4] + 1] = args[1]
        /\ received[4 + 2 * NumDpis] = sent[1][4]
        /\ returned[1].rate = POLLING_RATE[received[4 + 2 * NumDpis] + 1]
        /\ returned[1].rate = args[1]

(* What does hold: set_rate writes the index of hz, and every rate byte in  *)
(* 0..3 is read as 1000                                                     *)
RateByteReadsAs1000 ==
    (lastOp = "write_read_rate") =>
        /\ raised = "none"
        /\ POLLING_RATE[sent[1][4] + 1] = args[1]
        /\ received[4 + 2 * NumDpis] = sent[1][4]
        /\ returned[1].rate = 1000


(* ------------------------------------------------------------------ *)
(* C28: the DPIs a successful read_profile stores                      *)
(* ------------------------------------------------------------------ *)
(* The DPI get_resolution_data computes from a raw byte *)
DpiOfByte(byte) ==
    IF _has_quirk(QUIRK_DOUBLE_DPI) THEN (byte * 50 + 50) * 2 ELSE byte * 50 + 50

ReadDpiOutsideListIsRejected ==
    (lastOp = "read_profile" /\ args[1] = 0 /\ raised \in {"none", "ConfigError"}) =>
        /\ (raised = "ConfigError") = (DpiOfByte(args[2]) \notin dpi_list)
        /\ raised = "ConfigError" =>
            /\ returned[1].enabled
            /\ returned[1].resolutions = NewProfile(0, 0).resolutions

(* read_profile was given a DPI byte outside the candidate list *)
ReadDpiOutsideList ==
    /\ lastOp = "read_profile"
    /\ raised = "ConfigError"
    /\ DpiOfByte(args[2]) \notin dpi_list


(* ------------------------------------------------------------------ *)
(* C29: the completion report of a commit                              *)
(* ------------------------------------------------------------------ *)
(* C29: every commit request delivered to on_commit, the bus method Commit  *)
(* included, ends with exactly one completion report, whose success is true *)
(* if and only if no exception was raised while committing.                 *)
C29_CommitReportsOnce ==
    (lastOp \in {"commit", "bus_commit"}) => completed = <<raised = "none">>

(* A commit raised with a transaction is reported exactly once, success     *)
(* being true iff nothing was raised while committing; a commit raised by   *)
(* the bus method Commit sends the same packets and reports nothing.        *)
CommitReportsIffTransaction ==
    /\ lastOp = "commit" => completed = <<raised = "none">>
    /\ lastOp = "bus_commit" => completed = <<>>

(* A commit raised by the bus method has written to the device *)
BusCommitUnreported ==
    /\ lastOp = "bus_commit"
    /\ raised = "none"
    /\ Len(sent) > 2
    /\ completed = <<>>


(* ------------------------------------------------------------------ *)
(* C30: read_profile and device errors                                 *)
(* ------------------------------------------------------------------ *)
(* The queries of read_profile in the order they are sent *)
ReadProfileQueries ==
    (IF NumLeds = 0 THEN <<>> ELSE <<get_led_data_request>>)
    \o <<get_resolution_data_request>>
    \o (IF NumButtons = 0 THEN <<>> ELSE <<get_button_actions_request>>)
    \o <<get_distance_request, get_battery_data_request>>

(* C30: if one of the queries of read_profile (LED, resolution, button,     *)
(* lift-off distance, battery) fails with DeviceError, no field of the      *)
(* profile is changed and its enabled flag stays false; enabled is true     *)
(* only after all the queries succeeded.                                    *)
C30_ReadProfileAllOrNothing ==
    (lastOp = "read_profile") =>
        /\ (args[1] > 0 \/ raised = "DeviceError") =>
              /\ returned[1] = NewProfile(0, 0)
              /\ ~returned[1].enabled
        /\ returned[1].enabled =>
              /\ args[1] = 0
              /\ failed = {}
              /\ sent = ReadProfileQueries

(* read_profile met the error marker at its third query or later: the      *)
(* queries before it had succeeded                                          *)
C30_Witness ==
    /\ lastOp = "read_profile"
    /\ raised = "DeviceError"
    /\ args[1] >= 3
    /\ Len(sent) >= 3
    /\ returned[1] = NewProfile(0, 0)


(* ------------------------------------------------------------------ *)
(* C31: a DeviceError inside the initial read                          *)
(* ------------------------------------------------------------------ *)
(* The position in the packets of start() of the switch to profile p of the *)
(* initial read, 0 if there is none                                         *)
SwitchTo(p) ==
    LET at == {j \in SetProfileAt(sent) :
                  sent[j][2] = p /\ Cardinality({i \in SetProfileAt(sent) : i < j}) = p}
    IN  IF at = {} THEN 0 ELSE CHOOSE j \in at : TRUE

(* The positions of the switch to profile p and of the queries that read it *)
BlockOf(p) ==
    {j \in DOMAIN sent :
        /\ SwitchTo(p) # 0
        /\ j >= SwitchTo(p)
        /\ \A i \in SetProfileAt(sent) : i > SwitchTo(p) => j < i}

(* The exchanges of the initial read that failed with DeviceError: neither  *)
(* the profile-data query at the beginning nor the switch back at the end   *)
LoopFailures ==
    {j \in failed :
        /\ j >= 2
        /\ ~(j = Len(sent) /\ Cardinality(SetProfileAt(sent)) = NumProfiles + 1)}

(* C31: a DeviceError while start() switches to or reads a profile does not *)
(* stop the initial read: every profile is still switched to and, if the    *)
(* switch succeeded, read; every profile has its profile-active handler     *)
(* connected; start() returns the device. A profile is enabled exactly if   *)
(* none of its own exchanges failed.                                        *)
C31_StartGoesOnAfterDeviceError ==
    (lastOp = "start" /\ LoopFailures # {}) =>
        /\ started = "yes"
        /\ raised = "none"
        /\ added = 1
        /\ \A p \in Profiles :
              /\ profiles[p].connected
              /\ SwitchTo(p) # 0
              /\ SwitchTo(p) \notin failed => Kind(sent[SwitchTo(p) + 1]) = "query"
              /\ profiles[p].enabled <=> (BlockOf(p) \cap failed = {})

(* start() returned although the switch to or the read of the first profile *)
(* failed, and the next profile was read                                    *)
C31_Witness ==
    /\ lastOp = "start"
    /\ started = "yes"
    /\ NumProfiles >= 2
    /\ BlockOf(0) \cap failed # {}
    /\ profiles[1].enabled
    /\ profiles[0].connected


(* ------------------------------------------------------------------ *)
(* C32: a commit with no dirty profile                                 *)
(* ------------------------------------------------------------------ *)
(* The packets that write a field of the selected profile or persist it *)
IsProfileWrite(pkt) ==
    Kind(pkt) \notin {"get_profile_data", "set_profile", "query"}

NoDirtyProfile == \A p \in Profiles : ~profiles[p].dirty

(* C32: a commit with no dirty profile, the device answering every          *)
(* exchange, sends exactly two packets, get_profile_data and then           *)
(* set_profile of the index it read, no field write and no save_profile,    *)
(* and reports success; in every commit a profile that is not dirty         *)
(* receives no field write and no save_profile.                             *)
C32_CleanCommitSendsTwoPackets ==
    /\ (lastOp = "commit" /\ NoDirtyProfile /\ failed = {}) =>
          /\ Len(sent) = 2
          /\ sent[1] = get_profile_data_request
          /\ sent[2] = set_profile(current_profile_idx)
          /\ completed = <<TRUE>>
    /\ (lastOp \in {"commit", "bus_commit"}) =>
          \A j \in DOMAIN sent :
              IsProfileWrite(sent[j]) =>
                  /\ ProfileAt(j) \in Profiles
                  /\ profiles[ProfileAt(j)].dirty

(* What does hold: the same of a device without the STRIX_PROFILE quirk;    *)
(* with the quirk get_profile_data raises NameError after its exchange, so  *)
(* the commit ends after one packet and reports failure. The part on the    *)
(* profiles that are not dirty holds of every commit.                       *)
CleanCommit ==
    /\ (lastOp = "commit" /\ NoDirtyProfile /\ failed = {}) =>
          IF _has_quirk(QUIRK_STRIX_PROFILE)
          THEN /\ sent = <<get_profile_data_request>>
               /\ raised = "NameError"
               /\ completed = <<FALSE>>
          ELSE /\ sent = <<get_profile_data_request, set_profile(current_profile_idx)>>
               /\ raised = "none"
               /\ completed = <<TRUE>>
    /\ (lastOp \in {"commit", "bus_commit"}) =>
          \A j \in DOMAIN sent :
              IsProfileWrite(sent[j]) =>
                  /\ ProfileAt(j) \in Profiles
                  /\ profiles[ProfileAt(j)].dirty

(* A commit with one dirty profile and one that is not has written fields *)
CommitOfOneDirtyProfile ==
    /\ lastOp = "commit"
    /\ completed = <<TRUE>>
    /\ \E p, q \in Profiles : profiles[p].dirty /\ ~profiles[q].dirty
    /\ \E j \in DOMAIN sent : IsProfileWrite(sent[j])


(* ------------------------------------------------------------------ *)
(* C33: key bindings through the model and back                        *)
(* ------------------------------------------------------------------ *)
(* The keyboard codes the action table has a row for *)
TableKeyCodes ==
    The({{table[i][1] : i \in {j \in DOMAIN table : table[j][2] = "ActionKey"}} :
         table \in {ACTION_TABLE}})

(* The key name of the first ActionKey row with code K *)
KeyNameOf(K) == FirstWithCode(K, KeyRows).args[1]

(* C33: a button the device reports as a keyboard code K of the action      *)
(* table is stored by read_profile as a macro of exactly two events, press  *)
(* and release of the key of K, and set_button_action of that macro sends   *)
(* the same code K with the keyboard type byte.                             *)
C33_KeyRoundTrip ==
    (lastOp = "read_write_key" /\ args[1] \in TableKeyCodes) =>
        /\ returned[1].cls = "ActionMacro"
        /\ Len(returned[1].args) = 2
        /\ returned[1].args[1][1] = "KEY_PRESS"
        /\ returned[1].args[2][1] = "KEY_RELEASE"
        /\ returned[1].args[1][2] = returned[1].args[2][2]
        /\ EvKeyName(returned[1].args[1][2]) = KeyNameOf(args[1])
        /\ raised = "none"
        /\ sent[2][6] = args[1]
        /\ sent[2][7] = ACTION_TYPE_KEYBOARD

(* The key A (code 4) went through the model and back *)
C33_Witness ==
    /\ lastOp = "read_write_key"
    /\ args[1] = 4
    /\ returned[1] = ActionMacro(<< <<"KEY_PRESS", 30>>, <<"KEY_RELEASE", 30>> >>)
    /\ sent[2][6] = 4
    /\ sent[2][7] = ACTION_TYPE_KEYBOARD

====
